---- MODULE Spec2Model ----
(***************************************************************************)
(* A model of the ATS-Mini client SDK (sdk/src/ats_sdk): the RPC engine of *)
(* base.py (request, read_message, read_response) over an abstract         *)
(* transport, the connection lifecycle of the serial, WebSocket and BLE    *)
(* transports, the frame codec of framing.py, the byte-level read_frame of *)
(* the serial transport, the byte-level write_frame and read_frame of the  *)
(* BLE transport, the error translation of the Radio facade, the tasks     *)
(* sharing one serial port or one BLE client, the WebSocket transport, the *)
(* scoped lifecycle, the TUI's monitor, and the read_response of the       *)
(* legacy synchronous clients of legacy.py beside the engine's.            *)
(*                                                                         *)
(* Time is a discrete clock, now.  The engine reads the clock with         *)
(* loop.time(); the clock advances (Tick) only while the task is suspended *)
(* waiting for a frame, or between calls: synchronous code between two     *)
(* awaits runs at one instant.                                             *)
(***************************************************************************)
EXTENDS Integers, Sequences, FiniteSets, TLC

\* ------------------------------------------------------------------ bounds
MaxFrames == 2      \* frames the device delivers in one run
MaxTime == 2        \* last instant of the clock
MaxRequests == 3    \* request() calls in one run
MaxRxFrames == 1    \* complete frames the BLE receive buffer holds
MaxChunks == 2      \* GATT writes one BLE frame needs
MaxPayload == 1     \* bytes of the longest payload given to the frame codec
MaxSerialBytes == 6 \* bytes the device sends down the serial line in one run
MaxBleFrames == 2   \* frames the device sends over BLE in one run
MaxPortCalls == 2   \* calls the tasks sharing one serial port start in one run
MaxPortFrames == 2  \* frames the device sends to the shared serial port
MaxSharedWrites == 2 \* write_frame calls the tasks sharing one BLE client start
MaxWsMessages == 2  \* WebSocket messages sent each way in one run
MaxTuiRequests == 3 \* requests the TUI sends in one run
MaxTuiEvents == 1   \* events the device sends to the TUI in one run
MaxLegacyTime == 3  \* last instant of the clock the legacy client reads

\* ---------------------------------------------------------------- messages
\* A decoded message, as far as the engine looks at it: its "type" field
\* ("none": the field is absent) and its "id" field (0: the field is absent,
\* msg.get("id") is None and equals no request id).  The Event carries the
\* id a caller awaits: it is skipped all the same.  "undecodable" stands for
\* a frame whose payload cbor2.loads rejects.
Msgs == { [type |-> "event", id |-> 1],
          [type |-> "response", id |-> 1],
          [type |-> "response", id |-> 2],
          [type |-> "none", id |-> 1],
          [type |-> "undecodable", id |-> 0] }
RequestIds == {1, 2}
Timeouts == {0, 2}

NoMsg == [type |-> "none", id |-> 0]
NoResult == [kind |-> "none", msg |-> NoMsg, idx |-> 0]

VARIABLES
    now,             \* the event loop's clock, loop.time()
    stream,          \* every frame the transport has delivered: [msg, at]
    rxq,             \* frames delivered and not yet read: [idx, msg]
    pc,              \* where the task calling read_response is
    request_id,      \* read_response's argument
    timeout,         \* read_response's argument
    deadline,        \* base.py:161
    skipped_events,  \* base.py:166
    rfDeadline,      \* the deadline of the read_frame in progress
    result,          \* how the last read_response ended
    nread,           \* frames read from the transport so far
    startRead,       \* nread when the current call began
    read_error,      \* the error read_message raised in this call: [kind, nread]
    discarded        \* indices of frames read and not returned

VARIABLES
    next_id,         \* base.py:22  self._next_id
    reqLog           \* the request() calls made so far, in call order

VARIABLES
    transport,         \* the class of the instance: serial, websocket or ble
    handle,            \* self._serial / self._ws / self._client is set
    link_up,           \* the port or socket is open; client.is_connected
    notifying,         \* ble: the TX characteristic is subscribed
    disconnect_event,  \* ble.py:40  self._disconnect_event is set
    rx_frames,         \* ble.py:38  complete frames held in self._rx_buffer
    phase,             \* Unconnected, Connected or Closed, as the caller sees it
    failed_connect,    \* the last connect() or close() was a connect() that failed
    link_calls,        \* never: connect() was not called; connect: it was, since the last close() that returned; closed: close() has returned since
    last               \* the last operation: what it was and how it ended

VARIABLES
    codec              \* the last call of the frame codec: [op, arg, out]

VARIABLES
    ser_stream,        \* every byte the device has sent down the serial line
    ser_arrived,       \* how many of them have reached the port's input buffer
    ser_pos,           \* how many of them have left it (read, or flushed)
    ser_clock,         \* loop.time()
    ser_pc,            \* where the task calling read_frame is
    ser_deadline,      \* serial.py:108
    ser_data,          \* serial.py:147  data, of the _read_exact in progress
    ser_header,        \* serial.py:111  header, once it is read
    ser_result,        \* how the last read_frame ended
    ser_start,         \* ser_pos when the call began
    ser_nread,         \* bytes the call has taken with ser.read
    ser_resets,        \* reset_input_buffer calls the call has made
    ser_prev           \* the call before was given up after it took bytes

VARIABLES
    w_connected,       \* ble.py:108  self._client is set and is_connected
    w_mtu,             \* ble.py:41   self._mtu
    w_frame,           \* ble.py:118  frame, the argument of write_frame
    w_offset,          \* ble.py:127  offset
    w_pc,              \* where the task calling write_frame is
    w_writes,          \* the chunks given to write_gatt_char, in order
    w_sleeps,          \* the pacing delays the call has made
    w_result           \* how the last write_frame ended

VARIABLES
    rx_sent,           \* the frames the device has sent over BLE, in order
    rx_wire,           \* their bytes not yet handed over in a notification
    rx_notified,       \* every byte a notification has handed over
    rx_buffer,         \* ble.py:38  self._rx_buffer
    rx_event,          \* ble.py:39  self._rx_event is set
    rx_pc,             \* where the task calling read_frame is
    rx_waiting,        \* it is suspended in wait_for(self._rx_event.wait())
    rx_total,          \* ble.py:158  total_size
    rx_deadline,       \* ble.py:142
    rx_clock,          \* loop.time()
    rx_out,            \* the frames read_frame has returned, in order
    rx_result,         \* how the last read_frame ended
    rx_early,          \* bytes buffered before the deadline of the pending call
    rx_timeout,        \* ble.py:137  the timeout of the pending call
    rx_wait_until,     \* when the pending wait_for gives up
    rx_kept            \* what the last TimeoutError found in the buffer

VARIABLES
    call               \* the last call of the Radio facade: [op, reply, out]

VARIABLES
    port_lock,         \* serial.py:25  self._lock: the task holding it, 0 when it is free
    port_serial,       \* serial.py:24  self._serial is not None
    port_in,           \* the input buffer of the port: the bytes received and not yet read
    port_wire,         \* what the port has put on the wire, in order
    port_count,        \* calls started, read_frame calls among them, device frames
                       \* sent; the first two when switch_mode last returned
    task,              \* where each task is in the call it is making
    task_result        \* how the last call of each task ended

VARIABLES
    bw_mtu,            \* ble.py:41  self._mtu
    bw_connected,      \* the BLE link is up: self._client.is_connected
    bw_char,           \* the chunks written to the RX characteristic, in order
    bw_calls,          \* write_frame calls started, for the bound
    bw_task,           \* where each task is in its write_frame call
    bw_result          \* how the last write_frame call of each task ended

VARIABLES
    ws_open,           \* websocket.py:18  self._ws is not None
    ws_inbox,          \* the messages received and not yet taken by recv()
    ws_peer,           \* every message the peer has sent, in order
    ws_nread,          \* how many of them recv() has taken
    ws_sent,           \* the messages send() has put on the wire
    ws_pc,             \* where the task calling read_frame is
    ws_deadline,       \* when the timeout of wait_for is due
    ws_clock,          \* loop.time()
    ws_result          \* the last call: its name, argument and outcome

VARIABLES
    scope_pc,          \* where the task running async with transport is
    scope_body,        \* how the body of the scope ended
    scope_out          \* the exception that left the scope: of connect, the body or close

VARIABLES
    tui,               \* the TUI's connection: its state, the next request id, the requests the device has yet to answer, the events sent
    tui_in,            \* the decoded messages that wait on the transport, in order
    mon,               \* tui.py:626  the monitor task: where it is, the Responses and events it took
    fg                 \* tui.py:347  the foreground command: where it is, the id it awaits, how it ended

VARIABLES
    m_stream,          \* every frame the transport has delivered to read_frame, decoded
    m_queue,           \* frames delivered and not yet read, [idx, msg]
    m_pc,              \* where the task calling read_message is
    m_result,          \* how the last read_message ended
    m_taken            \* the frames the read_message calls have taken, in call order

VARIABLES
    legacy             \* legacy.py:102  the synchronous client's read_response: where it is, its deadlines, the frames it took, how it ended

readVars == <<now, stream, rxq, pc, request_id, timeout, deadline,
              skipped_events, rfDeadline, result, nread, startRead,
              read_error, discarded>>
requestVars == <<next_id, reqLog>>
lifeVars == <<transport, handle, link_up, notifying, disconnect_event,
              rx_frames, phase, failed_connect, link_calls, last>>

codecVars == <<codec>>
serialVars == <<ser_stream, ser_arrived, ser_pos, ser_clock, ser_pc,
                ser_deadline, ser_data, ser_header, ser_result, ser_start,
                ser_nread, ser_resets, ser_prev>>
bleWriteVars == <<w_connected, w_mtu, w_frame, w_offset, w_pc, w_writes,
                  w_sleeps, w_result>>
bleReadVars == <<rx_sent, rx_wire, rx_notified, rx_buffer, rx_event, rx_pc,
                 rx_waiting, rx_total, rx_deadline, rx_clock, rx_out,
                 rx_result, rx_early, rx_timeout, rx_wait_until, rx_kept>>
radioVars == <<call>>

portVars == <<port_lock, port_serial, port_in, port_wire, port_count, task, task_result>>

bleSharedVars == <<bw_mtu, bw_connected, bw_char, bw_calls, bw_task, bw_result>>

wsVars == <<ws_open, ws_inbox, ws_peer, ws_nread, ws_sent, ws_pc, ws_deadline, ws_clock, ws_result>>

scopeVars == <<scope_pc, scope_body, scope_out>>

tuiVars == <<tui, tui_in, mon, fg>>

msgVars == <<m_stream, m_queue, m_pc, m_result, m_taken>>

legacyVars == <<legacy>>

vars == <<readVars, requestVars, lifeVars, codecVars, serialVars,
          bleWriteVars, bleReadVars, radioVars,
    portVars,
    bleSharedVars,
    wsVars,
    scopeVars,
    tuiVars,
    msgVars,
    legacyVars>>

\* What the actions of each part leave alone.
notRead == <<requestVars, lifeVars, codecVars, serialVars, bleWriteVars,
    bleReadVars, radioVars,
    portVars,
    bleSharedVars,
    wsVars,
    scopeVars,
    tuiVars,
    msgVars,
    legacyVars>>
notRequest == <<readVars, lifeVars, codecVars, serialVars, bleWriteVars,
    bleReadVars, radioVars,
    portVars,
    bleSharedVars,
    wsVars,
    scopeVars,
    tuiVars,
    msgVars,
    legacyVars>>
notLife == <<readVars, requestVars, codecVars, serialVars, bleWriteVars,
    bleReadVars, radioVars,
    portVars,
    bleSharedVars,
    wsVars,
    scopeVars,
    tuiVars,
    msgVars,
    legacyVars>>
notCodec == <<readVars, requestVars, lifeVars, serialVars, bleWriteVars,
    bleReadVars, radioVars,
    portVars,
    bleSharedVars,
    wsVars,
    scopeVars,
    tuiVars,
    msgVars,
    legacyVars>>
notSerial == <<readVars, requestVars, lifeVars, codecVars, bleWriteVars,
    bleReadVars, radioVars,
    portVars,
    bleSharedVars,
    wsVars,
    scopeVars,
    tuiVars,
    msgVars,
    legacyVars>>
notBleWrite == <<readVars, requestVars, lifeVars, codecVars, serialVars,
    bleReadVars, radioVars,
    portVars,
    bleSharedVars,
    wsVars,
    scopeVars,
    tuiVars,
    msgVars,
    legacyVars>>
notRadio == <<readVars, requestVars, lifeVars, codecVars, serialVars,
              bleWriteVars, bleReadVars,
    portVars,
    bleSharedVars,
    wsVars,
    scopeVars,
    tuiVars,
    msgVars,
    legacyVars>>
notBleRead == <<readVars, requestVars, lifeVars, codecVars, serialVars,
                bleWriteVars, radioVars,
    portVars,
    bleSharedVars,
    wsVars,
    scopeVars,
    tuiVars,
    msgVars,
    legacyVars>>
notPort == <<readVars, requestVars, lifeVars, codecVars, serialVars,
    bleWriteVars, bleReadVars, radioVars,
    bleSharedVars,
    wsVars,
    scopeVars,
    tuiVars,
    msgVars,
    legacyVars>>
notBleShared == <<readVars, requestVars, lifeVars, codecVars, serialVars,
    bleWriteVars, bleReadVars, radioVars, portVars,
    wsVars,
    scopeVars,
    tuiVars,
    msgVars,
    legacyVars>>
notWs == <<readVars, requestVars, lifeVars, codecVars, serialVars,
    bleWriteVars, bleReadVars, radioVars, portVars, bleSharedVars,
    scopeVars,
    tuiVars,
    msgVars,
    legacyVars>>
notScope == <<readVars, requestVars, lifeVars, codecVars, serialVars,
    bleWriteVars, bleReadVars, radioVars, portVars, bleSharedVars,
    wsVars,
    tuiVars,
    msgVars,
    legacyVars>>
notTui == <<readVars, requestVars, lifeVars, codecVars, serialVars,
    bleWriteVars, bleReadVars, radioVars, portVars, bleSharedVars,
    wsVars, scopeVars,
    msgVars,
    legacyVars>>
notMsg == <<readVars, requestVars, lifeVars, codecVars, serialVars,
    bleWriteVars, bleReadVars, radioVars, portVars, bleSharedVars,
    wsVars, scopeVars, tuiVars,
    legacyVars>>
notLegacy == <<readVars, requestVars, lifeVars, codecVars, serialVars,
    bleWriteVars, bleReadVars, radioVars, portVars, bleSharedVars,
    wsVars, scopeVars, tuiVars, msgVars>>

\* ------------------------------------------------- read_response (base.py)

\* base.py:176  msg.get("type") == "event"
IsEventMatchesNothing(m) == FALSE
IsEvent(m) == m.type = "event"

\* base.py:181  msg.get("id") == request_id
IdMatchesAnything(m, id) == TRUE
IdMatches(m, id) == m.id = id

\* base.py:120 and 173-188: read_frame hands over the frame at the head of
\* the transport's queue; a message that is skipped is kept nowhere.
AfterReadRequeued(q) == Append(Tail(q), Head(q))
AfterRead(q) == Tail(q)

\* base.py:169  remaining = deadline - loop.time()
RemainingIsTimeout(d, t) == timeout
RemainingDoubled(d, t) == 2 * (d - t)
Remaining(d, t) == d - t

NoError == [kind |-> "none", nread |-> 0]

\* base.py:173: an error raised by read_message is not caught: it ends
\* read_response
ErrorSwallowed(e) == [pc |-> "loop", kind |-> "none"]
ErrorPropagates(e) == [pc |-> "idle", kind |-> e]

\* how read_response stands once read_message has raised e
AfterError(e) ==
    /\ pc' = ErrorPropagates(e).pc
    /\ result' = IF ErrorPropagates(e).kind = "none" THEN result
                 ELSE [kind |-> ErrorPropagates(e).kind, msg |-> NoMsg, idx |-> 0]

InitRead ==
    /\ now = 0
    /\ stream = <<>>
    /\ rxq = <<>>
    /\ pc = "idle"
    /\ request_id = 1
    /\ timeout = 0
    /\ deadline = 0
    /\ skipped_events = 0
    /\ rfDeadline = 0
    /\ result = NoResult
    /\ nread = 0
    /\ startRead = 0
    /\ read_error = NoError
    /\ discarded = {}

\* The device sends a message; the transport makes its frame available.
Deliver(m) ==
    /\ Len(stream) < MaxFrames
    /\ stream' = Append(stream, [msg |-> m, at |-> now])
    /\ rxq' = Append(rxq, [idx |-> Len(stream) + 1, msg |-> m])
    /\ UNCHANGED <<now, pc, request_id, timeout, deadline, skipped_events,
                   rfDeadline, result, nread, startRead, discarded, read_error>>
    /\ UNCHANGED notRead

\* Time passes while the task waits for a frame, or between calls.
Tick ==
    /\ now < MaxTime
    /\ \/ pc = "idle"
       \/ pc = "read_frame" /\ rxq = <<>> /\ now < rfDeadline
    /\ now' = now + 1
    /\ UNCHANGED <<stream, rxq, pc, request_id, timeout, deadline,
                   skipped_events, rfDeadline, result, nread,
                   startRead, discarded, read_error>>
    /\ UNCHANGED notRead

\* base.py:145-166
ReadResponse(id, t) ==
    /\ pc = "idle"
    /\ request_id' = id
    /\ timeout' = t
    /\ deadline' = now + t
    /\ skipped_events' = 0
    /\ pc' = "loop"
    /\ result' = NoResult
    /\ startRead' = nread
    /\ read_error' = NoError
    /\ UNCHANGED <<now, stream, rxq, rfDeadline, nread, discarded>>
    /\ UNCHANGED notRead

\* base.py:168-173: the loop test, and the call of read_message(remaining)
LoopEnter ==
    /\ pc = "loop"
    /\ now < deadline
    /\ Remaining(deadline, now) > 0
    /\ rfDeadline' = now + Remaining(deadline, now)
    /\ pc' = "read_frame"
    /\ UNCHANGED <<now, stream, rxq, request_id, timeout, deadline,
                   skipped_events, result, nread, startRead, discarded, read_error>>
    /\ UNCHANGED notRead

\* base.py:168-171 and 188: the deadline has passed
LoopExit ==
    /\ pc = "loop"
    /\ ~(now < deadline) \/ Remaining(deadline, now) <= 0
    /\ result' = [kind |-> "TimeoutError", msg |-> NoMsg, idx |-> 0]
    /\ pc' = "idle"
    /\ UNCHANGED <<now, stream, rxq, request_id, timeout, deadline,
                   skipped_events, rfDeadline, nread, startRead,
                   discarded, read_error>>
    /\ UNCHANGED notRead

\* base.py:173-178: read_message returns an Event, which is skipped
ReadEvent ==
    /\ pc = "read_frame"
    /\ rxq /= <<>>
    /\ now < rfDeadline
    /\ Head(rxq).msg.type /= "undecodable"
    /\ IsEvent(Head(rxq).msg)
    /\ rxq' = AfterRead(rxq)
    /\ nread' = nread + 1
    /\ skipped_events' = skipped_events + 1
    /\ discarded' = discarded \cup {Head(rxq).idx}
    /\ pc' = "loop"
    /\ UNCHANGED <<now, stream, request_id, timeout, deadline, rfDeadline,
                   result, startRead, read_error>>
    /\ UNCHANGED notRead

\* base.py:173-186: read_message returns the awaited Response
ReadMatch ==
    /\ pc = "read_frame"
    /\ rxq /= <<>>
    /\ now < rfDeadline
    /\ Head(rxq).msg.type /= "undecodable"
    /\ ~IsEvent(Head(rxq).msg)
    /\ IdMatches(Head(rxq).msg, request_id)
    /\ rxq' = Tail(rxq)
    /\ nread' = nread + 1
    /\ result' = [kind |-> "msg", msg |-> Head(rxq).msg, idx |-> Head(rxq).idx]
    /\ pc' = "idle"
    /\ UNCHANGED <<now, stream, request_id, timeout, deadline, skipped_events,
                   rfDeadline, startRead, discarded, read_error>>
    /\ UNCHANGED notRead

\* base.py:173-188: read_message returns a Response for another id
ReadOther ==
    /\ pc = "read_frame"
    /\ rxq /= <<>>
    /\ now < rfDeadline
    /\ Head(rxq).msg.type /= "undecodable"
    /\ ~IsEvent(Head(rxq).msg)
    /\ ~IdMatches(Head(rxq).msg, request_id)
    /\ rxq' = AfterRead(rxq)
    /\ nread' = nread + 1
    /\ discarded' = discarded \cup {Head(rxq).idx}
    /\ pc' = "loop"
    /\ UNCHANGED <<now, stream, request_id, timeout, deadline, skipped_events,
                   rfDeadline, result, startRead, read_error>>
    /\ UNCHANGED notRead

\* base.py:120 and 173: read_frame raises TimeoutError, which propagates
ReadFrameTimeout ==
    /\ pc = "read_frame"
    /\ now >= rfDeadline
    /\ AfterError("TimeoutError")
    /\ read_error' = [kind |-> "TimeoutError", nread |-> nread]
    /\ UNCHANGED <<now, stream, rxq, request_id, timeout, deadline,
                   skipped_events, rfDeadline, nread, startRead,
                   discarded>>
    /\ UNCHANGED notRead

\* base.py:120 and 173: read_frame raises ConnectionError (the link is
\* lost) or ValueError (the serial header is invalid), which propagates
ReadFrameFail(e) ==
    /\ pc = "read_frame"
    /\ AfterError(e)
    /\ read_error' = [kind |-> e, nread |-> nread]
    /\ UNCHANGED <<now, stream, rxq, request_id, timeout, deadline,
                   skipped_events, rfDeadline, nread, startRead,
                   discarded>>
    /\ UNCHANGED notRead

\* base.py:120-130 and 173: read_frame returns a frame that decode_frame or
\* cbor2.loads rejects; the ValueError propagates
ReadUndecodable ==
    /\ pc = "read_frame"
    /\ rxq /= <<>>
    /\ now < rfDeadline
    /\ Head(rxq).msg.type = "undecodable"
    /\ rxq' = AfterRead(rxq)
    /\ nread' = nread + 1
    /\ discarded' = discarded \cup {Head(rxq).idx}
    /\ AfterError("ValueError")
    /\ read_error' = [kind |-> "ValueError", nread |-> nread + 1]
    /\ UNCHANGED <<now, stream, request_id, timeout, deadline,
                   skipped_events, rfDeadline, startRead>>
    /\ UNCHANGED notRead

NextRead ==
    \/ \E m \in Msgs : Deliver(m)
    \/ Tick
    \/ \E id \in RequestIds, t \in Timeouts : ReadResponse(id, t)
    \/ LoopEnter
    \/ LoopExit
    \/ ReadEvent
    \/ ReadMatch
    \/ ReadOther
    \/ ReadFrameTimeout
    \/ \E e \in {"ConnectionError", "ValueError"} : ReadFrameFail(e)
    \/ ReadUndecodable


\* ------------------------------------------ legacy read_response (legacy.py)
\* SerialRpcClient.read_response (legacy.py:102-115) and
\* WebSocketRpcClient.read_response (legacy.py:175-188) are the same text.
\* The synchronous client is given what the async engine of the read part is
\* given: the call is made at the instant of the engine's call, with its
\* request id and timeout, and the frames of stream reach both at the same
\* instants.  Each reader takes the frames in order, with a cursor of its
\* own.  read_message blocks until a frame is there or its own timeout is
\* over (legacy.py:88-92, ws.recv(timeout=timeout) at legacy.py:164).

\* legacy.py:107 and 180  msg = self.read_message(timeout=timeout)
LegacyReadTimeout(d, t, whole) == whole

LegacyIdle == [pc |-> "idle", deadline |-> 0, until |-> 0, taken |-> 0,
               result |-> NoResult, ended |-> 0]

InitLegacy == legacy = LegacyIdle

\* the engine's read_response has been called, the legacy one has not
EngineCalled == pc /= "idle" \/ result /= NoResult
LegacyCalled == legacy.pc /= "idle" \/ legacy.result /= NoResult

\* the frame read_message hands over next
LegacyHead == stream[legacy.taken + 1].msg

LegacyFrameThere ==
    /\ legacy.pc = "read_message"
    /\ legacy.taken < Len(stream)
    /\ now < legacy.until

\* base.py:145: the engine's call, the only one of the run
EngineReadResponse(id, t) == result = NoResult /\ ReadResponse(id, t)

\* legacy.py:102-105: the same call, at the same instant
LegacyReadResponse ==
    /\ EngineCalled
    /\ ~LegacyCalled
    /\ now = deadline - timeout
    /\ legacy' = [LegacyIdle EXCEPT !.pc = "loop",
                                    !.deadline = now + timeout,
                                    !.taken = startRead]
    /\ UNCHANGED notLegacy

\* Time passes while each reader waits for a frame, or is not in a call.
LegacyTick ==
    /\ now < MaxLegacyTime
    /\ EngineCalled => LegacyCalled
    /\ \/ pc = "idle"
       \/ pc = "read_frame" /\ rxq = <<>> /\ now < rfDeadline
    /\ \/ legacy.pc = "idle"
       \/ /\ legacy.pc = "read_message"
          /\ legacy.taken = Len(stream)
          /\ now < legacy.until
    /\ now' = now + 1
    /\ UNCHANGED <<stream, rxq, pc, request_id, timeout, deadline,
                   skipped_events, rfDeadline, result, nread,
                   startRead, discarded, read_error>>
    /\ UNCHANGED notRead

\* legacy.py:106-107: the loop test, and the call of read_message(timeout)
LegacyLoopEnter ==
    /\ legacy.pc = "loop"
    /\ now < legacy.deadline
    /\ legacy' = [legacy EXCEPT !.pc = "read_message",
                     !.until = now + LegacyReadTimeout(legacy.deadline, now, timeout)]
    /\ UNCHANGED notLegacy

\* legacy.py:106 and 115: the deadline has passed
LegacyLoopExit ==
    /\ legacy.pc = "loop"
    /\ ~(now < legacy.deadline)
    /\ legacy' = [legacy EXCEPT !.pc = "idle", !.ended = now,
                     !.result = [kind |-> "TimeoutError", msg |-> NoMsg, idx |-> 0]]
    /\ UNCHANGED notLegacy

\* legacy.py:108-110: read_message returns an Event, which is skipped
LegacyReadEvent ==
    /\ LegacyFrameThere
    /\ LegacyHead.type = "event"
    /\ legacy' = [legacy EXCEPT !.pc = "loop", !.taken = @ + 1]
    /\ UNCHANGED notLegacy

\* legacy.py:111-114: read_message returns the awaited Response
LegacyReadMatch ==
    /\ LegacyFrameThere
    /\ LegacyHead.type /= "event"
    /\ LegacyHead.id = request_id
    /\ legacy' = [legacy EXCEPT !.pc = "idle", !.taken = @ + 1, !.ended = now,
                     !.result = [kind |-> "msg", msg |-> LegacyHead,
                                 idx |-> legacy.taken + 1]]
    /\ UNCHANGED notLegacy

\* legacy.py:106-111: read_message returns a Response for another id
LegacyReadOther ==
    /\ LegacyFrameThere
    /\ LegacyHead.type /= "event"
    /\ LegacyHead.id /= request_id
    /\ legacy' = [legacy EXCEPT !.pc = "loop", !.taken = @ + 1]
    /\ UNCHANGED notLegacy

\* legacy.py:107, 121-122 and 164: read_message raises TimeoutError, which
\* propagates
LegacyReadMessageTimeout ==
    /\ legacy.pc = "read_message"
    /\ now >= legacy.until
    /\ legacy' = [legacy EXCEPT !.pc = "idle", !.ended = now,
                     !.result = [kind |-> "TimeoutError", msg |-> NoMsg, idx |-> 0]]
    /\ UNCHANGED notLegacy

NextLegacy ==
    \/ \E m \in Msgs : m.type /= "undecodable" /\ Deliver(m)
    \/ LegacyTick
    \/ \E id \in RequestIds, t \in Timeouts : EngineReadResponse(id, t)
    \/ LoopEnter
    \/ LoopExit
    \/ ReadEvent
    \/ ReadMatch
    \/ ReadOther
    \/ ReadFrameTimeout
    \/ LegacyReadResponse
    \/ LegacyLoopEnter
    \/ LegacyLoopExit
    \/ LegacyReadEvent
    \/ LegacyReadMatch
    \/ LegacyReadOther
    \/ LegacyReadMessageTimeout


\* ------------------------------------------------- read_message (base.py)
\* read_message calls, one after the other, on a transport that hands its
\* frames over in the order it delivered them.  What stops read_frame (its
\* timeout, a lost link) belongs to the transport: here read_frame may raise
\* at any call.

\* base.py:132  msg_type = message.get("type", "response")
MsgTypeDefaultEvent(m) == IF m.type = "none" THEN "event" ELSE m.type
MsgType(m) == IF m.type = "none" THEN "response" ELSE m.type

NoMessage == [kind |-> "none", msg |-> NoMsg, class |-> "none"]

InitMsg ==
    /\ m_stream = <<>>
    /\ m_queue = <<>>
    /\ m_pc = "idle"
    /\ m_result = NoMessage
    /\ m_taken = <<>>

\* the device sends a message; the transport makes its frame available
MsgDeliver(m) ==
    /\ Len(m_stream) < MaxFrames
    /\ m_stream' = Append(m_stream, m)
    /\ m_queue' = Append(m_queue, [idx |-> Len(m_stream) + 1, msg |-> m])
    /\ UNCHANGED <<m_pc, m_result, m_taken>>
    /\ UNCHANGED notMsg

\* base.py:107-120  read_message(timeout): await self.read_frame(timeout)
ReadMessageCall ==
    /\ m_pc = "idle"
    /\ m_pc' = "read_frame"
    /\ m_result' = NoMessage
    /\ UNCHANGED <<m_stream, m_queue, m_taken>>
    /\ UNCHANGED notMsg

\* base.py:120  read_frame raises; the error leaves read_message, which has
\* taken no frame
ReadMessageRaises(e) ==
    /\ m_pc = "read_frame"
    /\ m_result' = [kind |-> e, msg |-> NoMsg, class |-> "none"]
    /\ m_pc' = "idle"
    /\ UNCHANGED <<m_stream, m_queue, m_taken>>
    /\ UNCHANGED notMsg

\* base.py:120-143  read_frame returns the frame at the head of the queue;
\* it decodes, and the message is returned
ReadMessageReturns ==
    /\ m_pc = "read_frame"
    /\ m_queue /= <<>>
    /\ Head(m_queue).msg.type /= "undecodable"
    /\ m_queue' = AfterRead(m_queue)
    /\ m_taken' = Append(m_taken, [idx |-> Head(m_queue).idx, ok |-> TRUE])
    /\ m_result' = [kind |-> "msg", msg |-> Head(m_queue).msg,
                    class |-> MsgType(Head(m_queue).msg)]
    /\ m_pc' = "idle"
    /\ UNCHANGED m_stream
    /\ UNCHANGED notMsg

\* base.py:120-130  read_frame returns a frame that decode_frame or
\* cbor2.loads rejects: ValueError
ReadMessageUndecodable ==
    /\ m_pc = "read_frame"
    /\ m_queue /= <<>>
    /\ Head(m_queue).msg.type = "undecodable"
    /\ m_queue' = AfterRead(m_queue)
    /\ m_taken' = Append(m_taken, [idx |-> Head(m_queue).idx, ok |-> FALSE])
    /\ m_result' = [kind |-> "ValueError", msg |-> NoMsg, class |-> "none"]
    /\ m_pc' = "idle"
    /\ UNCHANGED m_stream
    /\ UNCHANGED notMsg

NextMsg ==
    \/ \E m \in Msgs : MsgDeliver(m)
    \/ ReadMessageCall
    \/ \E e \in {"TimeoutError", "ConnectionError"} : ReadMessageRaises(e)
    \/ ReadMessageReturns
    \/ ReadMessageUndecodable

\* ------------------------------------------------------ request (base.py)

\* base.py:72  request_id: Optional[int] = None
None == -1
ExplicitIds == {1, 2, 3}

\* base.py:87-89  the id the call uses
IdUsed(next, arg) == IF arg = None THEN next ELSE arg

\* base.py:87-89  the counter after the call took its id
NextIdNotAdvanced(next, arg) == next
NextIdAlwaysAdvanced(next, arg) == next + 1
NextIdAfter(next, arg) == IF arg = None THEN next + 1 ELSE next

InitRequest ==
    /\ next_id = 1
    /\ reqLog = <<>>

\* base.py:87-104: request(method, params, request_id = arg) takes its id,
\* builds the frame and calls write_frame, in which it is then suspended.
\* writes counts the write_frame calls it has made, failed tells that one
\* raised.
Request(arg) ==
    /\ Len(reqLog) < MaxRequests
    /\ reqLog' = Append(reqLog, [arg |-> arg,
                                 id |-> IdUsed(next_id, arg),
                                 state |-> "write_frame",
                                 writes |-> 1,
                                 failed |-> FALSE])
    /\ next_id' = NextIdAfter(next_id, arg)
    /\ UNCHANGED notRequest

\* base.py:104-105: write_frame returns, and request returns the id
WriteFrameReturns(i) ==
    /\ reqLog[i].state = "write_frame"
    /\ reqLog' = [reqLog EXCEPT ![i].state = "returned"]
    /\ UNCHANGED next_id
    /\ UNCHANGED notRequest

\* base.py:104: write_frame raises, and the error leaves request
WriteFrameRaises(i) ==
    /\ reqLog[i].state = "write_frame"
    /\ reqLog' = [reqLog EXCEPT ![i].state = "raised", ![i].failed = TRUE]
    /\ UNCHANGED next_id
    /\ UNCHANGED notRequest

NextRequest ==
    \/ \E arg \in {None} \cup ExplicitIds : Request(arg)
    \/ \E i \in 1..Len(reqLog) : WriteFrameReturns(i)
    \/ \E i \in 1..Len(reqLog) : WriteFrameRaises(i)

\* ------------------------------------------------- connection lifecycle
\* transports/serial.py, transports/websocket.py, ble.py: connect, close,
\* write_frame and read_frame, each with the outcomes the underlying link
\* (pyserial, websockets, bleak) can give it.

Transports == {"serial", "websocket", "ble"}
FrameTimeouts == {0, 1}

NoOp == [op |-> "none", phase |-> "Unconnected", disc |-> FALSE,
         outcome |-> "ok", io |-> FALSE, waited |-> FALSE]

\* The record of an operation that starts in the present state.
Op(name, outcome, io, waited) ==
    [op |-> name, phase |-> phase, disc |-> disconnect_event,
     outcome |-> outcome, io |-> io, waited |-> waited]

\* serial.py:56, 96, 105  if self._serial / if not self._serial
SerialHandleAssumed(h) == FALSE
SerialNotConnected(h) == ~h

\* websocket.py:43, 50  if not self._ws
WsNotConnected(h) == ~h

\* ble.py:108  if not self._client or not self._client.is_connected
BleNotConnected(h, up) == ~h \/ ~up

\* The caller's view once close() has returned.
PhaseAfterClose(ph) == IF ph = "Connected" THEN "Closed" ELSE ph

InitLife ==
    /\ transport \in Transports
    /\ handle = FALSE
    /\ link_up = FALSE
    /\ notifying = FALSE
    /\ disconnect_event = FALSE
    /\ rx_frames = 0
    /\ phase = "Unconnected"
    /\ failed_connect = FALSE
    /\ link_calls = "never"
    /\ last = NoOp

\* serial.py:29-38: serial.Serial(...) raises; self._serial is not assigned
SerialConnectOpenFails ==
    /\ transport = "serial"
    /\ last' = Op("connect", "Error", TRUE, FALSE)
    /\ failed_connect' = (phase = "Unconnected")
    /\ link_calls' = "connect"
    /\ UNCHANGED <<transport, handle, link_up, notifying, disconnect_event,
                   rx_frames, phase>>
    /\ UNCHANGED notLife

\* serial.py:38-48: the port opens and self._serial is set; in_waiting or
\* reset_input_buffer then raises.
SerialConnectFlushFails ==
    /\ transport = "serial"
    /\ handle' = TRUE
    /\ link_up' = TRUE
    /\ last' = Op("connect", "Error", TRUE, TRUE)
    /\ failed_connect' = (phase = "Unconnected")
    /\ link_calls' = "connect"
    /\ UNCHANGED <<transport, notifying, disconnect_event, rx_frames, phase>>
    /\ UNCHANGED notLife

\* serial.py:27-52: connect() returns
SerialConnect ==
    /\ transport = "serial"
    /\ handle' = TRUE
    /\ link_up' = TRUE
    /\ phase' = "Connected"
    /\ last' = Op("connect", "ok", TRUE, TRUE)
    /\ failed_connect' = FALSE
    /\ link_calls' = "connect"
    /\ UNCHANGED <<transport, notifying, disconnect_event, rx_frames>>
    /\ UNCHANGED notLife

\* serial.py:54-60: close() with self._serial set; the port closes
SerialClose ==
    /\ transport = "serial"
    /\ ~SerialNotConnected(handle)
    /\ handle' = FALSE
    /\ link_up' = FALSE
    /\ phase' = PhaseAfterClose(phase)
    /\ last' = Op("close", "ok", TRUE, FALSE)
    /\ failed_connect' = FALSE
    /\ link_calls' = "closed"
    /\ UNCHANGED <<transport, notifying, disconnect_event, rx_frames>>
    /\ UNCHANGED notLife

\* serial.py:56-58: the port's close raises; the assignment of None that
\* follows is not reached.
SerialCloseRaises ==
    /\ transport = "serial"
    /\ ~SerialNotConnected(handle)
    /\ link_up' \in {link_up, FALSE}
    /\ last' = Op("close", "Error", TRUE, FALSE)
    /\ failed_connect' = FALSE
    /\ link_calls' = link_calls
    /\ UNCHANGED <<transport, handle, notifying, disconnect_event, rx_frames,
                   phase>>
    /\ UNCHANGED notLife

\* serial.py:56: close() with self._serial unset does nothing
SerialCloseNoHandle ==
    /\ transport = "serial"
    /\ SerialNotConnected(handle)
    /\ phase' = PhaseAfterClose(phase)
    /\ last' = Op("close", "ok", FALSE, FALSE)
    /\ failed_connect' = FALSE
    /\ link_calls' = "closed"
    /\ UNCHANGED <<transport, handle, link_up, notifying, disconnect_event,
                   rx_frames>>
    /\ UNCHANGED notLife

\* serial.py:94-101: write_frame
SerialWriteFrame ==
    /\ transport = "serial"
    /\ \/ /\ SerialNotConnected(handle)
          /\ last' = Op("write_frame", "ConnectionError", FALSE, FALSE)
       \/ /\ ~SerialNotConnected(handle)
          /\ link_up
          /\ last' = Op("write_frame", "ok", TRUE, FALSE)
       \/ /\ ~SerialNotConnected(handle)
          /\ last' = Op("write_frame", "Error", TRUE, FALSE)
    /\ UNCHANGED <<transport, handle, link_up, notifying, disconnect_event,
                   rx_frames, phase, failed_connect, link_calls>>
    /\ UNCHANGED notLife

\* serial.py:103-143: read_frame; with no time left _read_exact raises
\* TimeoutError before it touches the port.
SerialReadFrame(t) ==
    /\ transport = "serial"
    /\ \/ /\ SerialNotConnected(handle)
          /\ last' = Op("read_frame", "ConnectionError", FALSE, FALSE)
       \/ /\ ~SerialNotConnected(handle)
          /\ link_up
          /\ t > 0
          /\ \E w \in BOOLEAN : last' = Op("read_frame", "ok", TRUE, w /\ t > 0)
       \/ /\ ~SerialNotConnected(handle)
          /\ link_up
          /\ last' = Op("read_frame", "TimeoutError", t > 0, t > 0)
       \/ /\ ~SerialNotConnected(handle)
          /\ t > 0
          /\ last' = Op("read_frame", "Error", TRUE, FALSE)
    /\ UNCHANGED <<transport, handle, link_up, notifying, disconnect_event,
                   rx_frames, phase, failed_connect, link_calls>>
    /\ UNCHANGED notLife

\* websocket.py:26-29: websockets.connect raises; self._ws is not assigned
WsConnectFails ==
    /\ transport = "websocket"
    /\ last' = Op("connect", "Error", TRUE, TRUE)
    /\ failed_connect' = (phase = "Unconnected")
    /\ link_calls' = "connect"
    /\ UNCHANGED <<transport, handle, link_up, notifying, disconnect_event,
                   rx_frames, phase>>
    /\ UNCHANGED notLife

\* websocket.py:20-31: connect() returns
WsConnect ==
    /\ transport = "websocket"
    /\ handle' = TRUE
    /\ link_up' = TRUE
    /\ phase' = "Connected"
    /\ last' = Op("connect", "ok", TRUE, TRUE)
    /\ failed_connect' = FALSE
    /\ link_calls' = "connect"
    /\ UNCHANGED <<transport, notifying, disconnect_event, rx_frames>>
    /\ UNCHANGED notLife

\* websocket.py:33-39: close() with self._ws set; the socket closes
WsClose ==
    /\ transport = "websocket"
    /\ ~WsNotConnected(handle)
    /\ handle' = FALSE
    /\ link_up' = FALSE
    /\ phase' = PhaseAfterClose(phase)
    /\ last' = Op("close", "ok", TRUE, FALSE)
    /\ failed_connect' = FALSE
    /\ link_calls' = "closed"
    /\ UNCHANGED <<transport, notifying, disconnect_event, rx_frames>>
    /\ UNCHANGED notLife

\* websocket.py:35-37: the socket's close raises; the assignment of None that
\* follows is not reached.
WsCloseRaises ==
    /\ transport = "websocket"
    /\ ~WsNotConnected(handle)
    /\ link_up' \in {link_up, FALSE}
    /\ last' = Op("close", "Error", TRUE, FALSE)
    /\ failed_connect' = FALSE
    /\ link_calls' = link_calls
    /\ UNCHANGED <<transport, handle, notifying, disconnect_event, rx_frames,
                   phase>>
    /\ UNCHANGED notLife

\* websocket.py:35: close() with self._ws unset does nothing
WsCloseNoHandle ==
    /\ transport = "websocket"
    /\ WsNotConnected(handle)
    /\ phase' = PhaseAfterClose(phase)
    /\ last' = Op("close", "ok", FALSE, FALSE)
    /\ failed_connect' = FALSE
    /\ link_calls' = "closed"
    /\ UNCHANGED <<transport, handle, link_up, notifying, disconnect_event,
                   rx_frames>>
    /\ UNCHANGED notLife

\* websocket.py:41-46: write_frame
WsWriteFrame ==
    /\ transport = "websocket"
    /\ \/ /\ WsNotConnected(handle)
          /\ last' = Op("write_frame", "ConnectionError", FALSE, FALSE)
       \/ /\ ~WsNotConnected(handle)
          /\ link_up
          /\ last' = Op("write_frame", "ok", TRUE, FALSE)
       \/ /\ ~WsNotConnected(handle)
          /\ last' = Op("write_frame", "Error", TRUE, FALSE)
    /\ UNCHANGED <<transport, handle, link_up, notifying, disconnect_event,
                   rx_frames, phase, failed_connect, link_calls>>
    /\ UNCHANGED notLife

\* websocket.py:48-64: read_frame
WsReadFrame(t) ==
    /\ transport = "websocket"
    /\ \/ /\ WsNotConnected(handle)
          /\ last' = Op("read_frame", "ConnectionError", FALSE, FALSE)
       \/ /\ ~WsNotConnected(handle)
          /\ link_up
          /\ \E w \in BOOLEAN : last' = Op("read_frame", "ok", TRUE, w /\ t > 0)
       \/ /\ ~WsNotConnected(handle)
          /\ link_up
          /\ last' = Op("read_frame", "TimeoutError", TRUE, t > 0)
       \/ /\ ~WsNotConnected(handle)
          /\ TRUE
          /\ last' = Op("read_frame", "Error", TRUE, FALSE)
    /\ UNCHANGED <<transport, handle, link_up, notifying, disconnect_event,
                   rx_frames, phase, failed_connect, link_calls>>
    /\ UNCHANGED notLife

\* ble.py:53-65  self._client once the scan is over: BleakClient(device) is
\* assigned only past the "not found" raise
ClientBeforeScan(h, found) == TRUE
ClientAfterScan(h, found) == IF found THEN TRUE ELSE h

\* ble.py:48-57: the scan finds no device
BleConnectNotFound ==
    /\ transport = "ble"
    /\ handle' = ClientAfterScan(handle, FALSE)
    /\ last' = Op("connect", "ConnectionError", FALSE, TRUE)
    /\ failed_connect' = (phase = "Unconnected")
    /\ link_calls' = "connect"
    /\ UNCHANGED <<transport, link_up, notifying, disconnect_event,
                   rx_frames, phase>>
    /\ UNCHANGED notLife

\* ble.py:62-67: self._client is set, and its connect() raises
BleConnectLinkFails ==
    /\ transport = "ble"
    /\ handle' = TRUE
    /\ link_up' = FALSE
    /\ notifying' = FALSE
    /\ last' = Op("connect", "Error", TRUE, TRUE)
    /\ failed_connect' = (phase = "Unconnected")
    /\ link_calls' = "connect"
    /\ UNCHANGED <<transport, disconnect_event, rx_frames, phase>>
    /\ UNCHANGED notLife

\* ble.py:62-74: the link is up, and start_notify raises
BleConnectNotifyFails ==
    /\ transport = "ble"
    /\ handle' = TRUE
    /\ link_up' = TRUE
    /\ notifying' = FALSE
    /\ last' = Op("connect", "Error", TRUE, TRUE)
    /\ failed_connect' = (phase = "Unconnected")
    /\ link_calls' = "connect"
    /\ UNCHANGED <<transport, disconnect_event, rx_frames, phase>>
    /\ UNCHANGED notLife

\* ble.py:43-81: connect() returns
BleConnect ==
    /\ transport = "ble"
    /\ handle' = TRUE
    /\ link_up' = TRUE
    /\ notifying' = TRUE
    /\ phase' = "Connected"
    /\ last' = Op("connect", "ok", TRUE, TRUE)
    /\ failed_connect' = FALSE
    /\ link_calls' = "connect"
    /\ UNCHANGED <<transport, disconnect_event, rx_frames>>
    /\ UNCHANGED notLife

\* ble.py:83-93: close() on a connected client; stop_notify may raise (which
\* is caught), disconnect() returns.  bleak may run the disconnect callback.
BleClose ==
    /\ transport = "ble"
    /\ ~BleNotConnected(handle, link_up)
    /\ handle' = FALSE
    /\ link_up' = FALSE
    /\ notifying' = FALSE
    /\ disconnect_event' \in {disconnect_event, TRUE}
    /\ phase' = PhaseAfterClose(phase)
    /\ last' = Op("close", "ok", TRUE, FALSE)
    /\ failed_connect' = FALSE
    /\ link_calls' = "closed"
    /\ UNCHANGED <<transport, rx_frames>>
    /\ UNCHANGED notLife

\* ble.py:85-91: disconnect() raises, outside the try; self._client stays
BleCloseRaises ==
    /\ transport = "ble"
    /\ ~BleNotConnected(handle, link_up)
    /\ link_up' \in BOOLEAN
    /\ notifying' \in {notifying, FALSE}
    /\ last' = Op("close", "Error", TRUE, FALSE)
    /\ failed_connect' = FALSE
    /\ link_calls' = link_calls
    /\ UNCHANGED <<transport, handle, disconnect_event, rx_frames, phase>>
    /\ UNCHANGED notLife

\* ble.py:85: close() without a client, or with a client whose link is
\* down, does nothing
BleCloseNotConnected ==
    /\ transport = "ble"
    /\ BleNotConnected(handle, link_up)
    /\ phase' = PhaseAfterClose(phase)
    /\ last' = Op("close", "ok", FALSE, FALSE)
    /\ failed_connect' = FALSE
    /\ link_calls' = "closed"
    /\ UNCHANGED <<transport, handle, link_up, notifying, disconnect_event,
                   rx_frames>>
    /\ UNCHANGED notLife

\* ble.py:106-135: write_frame of a frame of n chunks; write_raw tests the
\* link before each chunk, and the link may drop between two chunks.
BleWriteFrame(n) ==
    /\ transport = "ble"
    /\ \/ /\ BleNotConnected(handle, link_up)
          /\ last' = Op("write_frame", "ConnectionError", FALSE, FALSE)
          /\ UNCHANGED <<link_up, notifying, disconnect_event>>
       \/ /\ ~BleNotConnected(handle, link_up)
          /\ last' = Op("write_frame", "ok", TRUE, n > 1)
          /\ UNCHANGED <<link_up, notifying, disconnect_event>>
       \/ /\ ~BleNotConnected(handle, link_up)
          /\ last' = Op("write_frame", "Error", TRUE, FALSE)
          /\ UNCHANGED <<link_up, notifying, disconnect_event>>
       \/ /\ ~BleNotConnected(handle, link_up)
          /\ n > 1
          /\ link_up' = FALSE
          /\ notifying' = FALSE
          /\ disconnect_event' = TRUE
          /\ last' = Op("write_frame", "ConnectionError", TRUE, TRUE)
    /\ UNCHANGED <<transport, handle, rx_frames, phase, failed_connect, link_calls>>
    /\ UNCHANGED notLife

\* ble.py:137-184: read_frame looks at the buffer only.  With a complete
\* frame buffered it returns it; otherwise it waits for notifications until
\* the deadline.
BleReadFrame(t) ==
    /\ transport = "ble"
    /\ \/ /\ rx_frames > 0
          /\ rx_frames' = rx_frames - 1
          /\ last' = Op("read_frame", "ok", FALSE, FALSE)
       \/ /\ rx_frames = 0
          /\ t > 0
          /\ link_up /\ notifying
          /\ rx_frames' = 0
          /\ last' = Op("read_frame", "ok", FALSE, TRUE)
       \/ /\ rx_frames = 0
          /\ rx_frames' = 0
          /\ last' = Op("read_frame", "TimeoutError", FALSE, t > 0)
    /\ UNCHANGED <<transport, handle, link_up, notifying, disconnect_event,
                   phase, failed_connect, link_calls>>
    /\ UNCHANGED notLife

\* ble.py:186-193: notifications complete one more frame in the buffer
BleNotification ==
    /\ transport = "ble"
    /\ link_up /\ notifying
    /\ rx_frames < MaxRxFrames
    /\ rx_frames' = rx_frames + 1
    /\ UNCHANGED <<transport, handle, link_up, notifying, disconnect_event,
                   phase, failed_connect, link_calls, last>>
    /\ UNCHANGED notLife

\* ble.py:195-201: the link is lost and bleak runs _on_disconnect
BleOnDisconnect ==
    /\ transport = "ble"
    /\ handle /\ link_up
    /\ link_up' = FALSE
    /\ notifying' = FALSE
    /\ disconnect_event' = TRUE
    /\ UNCHANGED <<transport, handle, rx_frames, phase, failed_connect, link_calls, last>>
    /\ UNCHANGED notLife

NextLife ==
    \/ SerialConnectOpenFails
    \/ SerialConnectFlushFails
    \/ SerialConnect
    \/ SerialClose
    \/ SerialCloseRaises
    \/ SerialCloseNoHandle
    \/ SerialWriteFrame
    \/ \E t \in FrameTimeouts : SerialReadFrame(t)
    \/ WsConnectFails
    \/ WsConnect
    \/ WsClose
    \/ WsCloseRaises
    \/ WsCloseNoHandle
    \/ WsWriteFrame
    \/ \E t \in FrameTimeouts : WsReadFrame(t)
    \/ BleConnectNotFound
    \/ BleConnectLinkFails
    \/ BleConnectNotifyFails
    \/ BleConnect
    \/ BleClose
    \/ BleCloseRaises
    \/ BleCloseNotConnected
    \/ \E n \in 1..MaxChunks : BleWriteFrame(n)
    \/ \E t \in FrameTimeouts : BleReadFrame(t)
    \/ BleNotification
    \/ BleOnDisconnect

\* ------------------------------------------------ frame codec (framing.py)
\* A byte is a number in 0..255 and a byte string a sequence of bytes.

\* int.from_bytes(b, "big")
RECURSIVE FromBytes(_)
FromBytes(b) ==
    IF b = <<>> THEN 0
    ELSE 256 * FromBytes(SubSeq(b, 1, Len(b) - 1)) + b[Len(b)]

\* n.to_bytes(k, "big"), for n < 256^k
ToBytesLittle(n, k) == [i \in 1..k |-> (n \div (256 ^ (i - 1))) % 256]
ToBytes(n, k) == [i \in 1..k |-> (n \div (256 ^ (k - i))) % 256]

\* message[:n] and message[n:]
Take(b, n) == SubSeq(b, 1, IF n < Len(b) THEN n ELSE Len(b))
Drop(b, n) == SubSeq(b, n + 1, Len(b))

Returns(v) == [ok |-> TRUE, value |-> v, error |-> "none"]
Raises(e) == [ok |-> FALSE, value |-> <<>>, error |-> e]

\* framing.py:1-3
encode_frame(payload) == ToBytes(Len(payload), 4) \o payload

\* framing.py:11  the test that the header agrees with the payload
LengthMismatchWholeMessage(length, message) == length /= Len(message)
LengthMismatch(length, message) == length /= Len(Drop(message, 4))

\* framing.py:6-13
decode_frame(message) ==
    IF Len(message) < 4 THEN Raises("ValueError")
    ELSE IF LengthMismatch(FromBytes(Take(message, 4)), message)
         THEN Raises("ValueError")
         ELSE Returns(Drop(message, 4))

\* The bytes the codec is tried on, and the byte strings built from them
CodecBytes == {0, 1, 2}
BytesUpTo(n) == UNION {[1..k -> CodecBytes] : k \in 0..n}

InitCodec ==
    codec = [op |-> "none", arg |-> <<>>, out |-> Returns(<<>>)]

\* a caller encodes a payload
EncodeFrame(p) ==
    /\ codec' = [op |-> "encode_frame", arg |-> p, out |-> Returns(encode_frame(p))]
    /\ UNCHANGED notCodec

\* a caller decodes a byte string
DecodeFrame(m) ==
    /\ codec' = [op |-> "decode_frame", arg |-> m, out |-> decode_frame(m)]
    /\ UNCHANGED notCodec

\* a caller decodes the frame that encode_frame has just returned; arg stays
\* the payload that was encoded
DecodeEncoded ==
    /\ codec.op = "encode_frame"
    /\ codec' = [op |-> "round_trip", arg |-> codec.arg,
                 out |-> decode_frame(codec.out.value)]
    /\ UNCHANGED notCodec

NextCodec ==
    \/ \E p \in BytesUpTo(MaxPayload) : EncodeFrame(p)
    \/ \E m \in BytesUpTo(4 + MaxPayload) : DecodeFrame(m)
    \/ DecodeEncoded

\* ------------------------------- serial read_frame (transports/serial.py)
\* The port is open.  The device's bytes reach the port's input buffer one by
\* one, at any moment of a read_frame; the clock may advance at every await.

\* serial.py:115  the largest length a header may declare
MaxFrameLength == 1000000

\* serial.py:115
InvalidLengthFromCeiling(length) == length >= MaxFrameLength \/ length = 0
InvalidLength(length) == length > MaxFrameLength \/ length = 0

\* serial.py:164  to_read = min(available, size - len(data))
ToRead(available, need) == IF available < need THEN available ELSE need

\* What the device sends: headers that declare these lengths, and these bytes
HeaderLengths == {0, 1, 2, MaxFrameLength, MaxFrameLength + 1}
SerialBytes == {0, 1}

NoneYet == [ok |-> FALSE, value |-> <<>>, error |-> "none"]

\* ser.in_waiting
InWaiting == ser_arrived - ser_pos

\* serial.py:133  the size asked of _read_exact for the payload
PayloadSizeOneShort(length) == length - 1
PayloadSize(length) == length

\* serial.py:149  size, of the _read_exact in progress
Size == IF ser_pc = "header" THEN 4 ELSE PayloadSize(FromBytes(ser_header))

\* The last call ended in a TimeoutError or was cancelled, after it had
\* taken bytes from the port
GivenUp ==
    /\ ser_result.error \in {"TimeoutError", "CancelledError"}
    /\ ser_nread > 0

\* A frame whose payload holds the bytes of a frame
NestedFrame(b) == encode_frame(encode_frame(<<b>>))

InitSerial ==
    /\ ser_stream = <<>>
    /\ ser_arrived = 0
    /\ ser_pos = 0
    /\ ser_clock = 0
    /\ ser_pc = "idle"
    /\ ser_deadline = 0
    /\ ser_data = <<>>
    /\ ser_header = <<>>
    /\ ser_result = NoneYet
    /\ ser_start = 0
    /\ ser_nread = 0
    /\ ser_resets = 0
    /\ ser_prev = FALSE

\* the device sends a 4-byte header declaring length n
DeviceSendsHeader(n) ==
    /\ Len(ser_stream) + 4 <= MaxSerialBytes
    /\ ser_stream' = ser_stream \o ToBytes(n, 4)
    /\ UNCHANGED <<ser_arrived, ser_pos, ser_clock, ser_pc, ser_deadline,
                   ser_data, ser_header, ser_result, ser_start, ser_nread,
                   ser_resets>>
    /\ UNCHANGED ser_prev
    /\ UNCHANGED notSerial

\* the device sends one byte
DeviceSendsByte(b) ==
    /\ Len(ser_stream) < MaxSerialBytes
    /\ ser_stream' = Append(ser_stream, b)
    /\ UNCHANGED <<ser_arrived, ser_pos, ser_clock, ser_pc, ser_deadline,
                   ser_data, ser_header, ser_result, ser_start, ser_nread,
                   ser_resets>>
    /\ UNCHANGED ser_prev
    /\ UNCHANGED notSerial

\* one more byte reaches the input buffer
SerialArrive ==
    /\ ser_arrived < Len(ser_stream)
    /\ ser_arrived' = ser_arrived + 1
    /\ UNCHANGED <<ser_stream, ser_pos, ser_clock, ser_pc, ser_deadline,
                   ser_data, ser_header, ser_result, ser_start, ser_nread,
                   ser_resets>>
    /\ UNCHANGED ser_prev
    /\ UNCHANGED notSerial

\* time passes: between calls, in an await of read_frame, or in the sleep of
\* serial.py:174
SerialTick ==
    /\ ser_clock < MaxTime
    /\ ser_clock' = ser_clock + 1
    /\ UNCHANGED <<ser_stream, ser_arrived, ser_pos, ser_pc, ser_deadline,
                   ser_data, ser_header, ser_result, ser_start, ser_nread,
                   ser_resets>>
    /\ UNCHANGED ser_prev
    /\ UNCHANGED notSerial

\* serial.py:103-111: read_frame(t) on an open port, up to the first
\* _read_exact
SerialReadFrameCall(t) ==
    /\ ser_pc = "idle"
    /\ ser_deadline' = ser_clock + t
    /\ ser_pc' = "header"
    /\ ser_data' = <<>>
    /\ ser_header' = <<>>
    /\ ser_result' = NoneYet
    /\ ser_start' = ser_pos
    /\ ser_nread' = 0
    /\ ser_resets' = 0
    /\ ser_prev' = GivenUp
    /\ UNCHANGED <<ser_stream, ser_arrived, ser_pos, ser_clock>>
    /\ UNCHANGED notSerial

\* serial.py:149-154 (and 134-141): no time is left
ReadExactTimeout ==
    /\ ser_pc \in {"header", "payload"}
    /\ Len(ser_data) < Size
    /\ ser_deadline - ser_clock <= 0
    /\ ser_result' = Raises("TimeoutError")
    /\ ser_pc' = "idle"
    /\ UNCHANGED <<ser_stream, ser_arrived, ser_pos, ser_clock, ser_deadline,
                   ser_data, ser_header, ser_start, ser_nread, ser_resets>>
    /\ UNCHANGED ser_prev
    /\ UNCHANGED notSerial

\* serial.py:149-171: bytes are waiting and are read
ReadExactRead ==
    /\ ser_pc \in {"header", "payload"}
    /\ Len(ser_data) < Size
    /\ ser_deadline - ser_clock > 0
    /\ InWaiting > 0
    /\ LET to_read == ToRead(InWaiting, Size - Len(ser_data))
       IN  /\ ser_data' = ser_data \o SubSeq(ser_stream, ser_pos + 1,
                                               ser_pos + to_read)
           /\ ser_pos' = ser_pos + to_read
           /\ ser_nread' = ser_nread + to_read
    /\ UNCHANGED <<ser_stream, ser_arrived, ser_clock, ser_pc, ser_deadline,
                   ser_header, ser_result, ser_start, ser_resets>>
    /\ UNCHANGED ser_prev
    /\ UNCHANGED notSerial

\* serial.py:111-129: the header is read and its length is judged; an
\* invalid length flushes the input buffer and raises
HeaderRead ==
    /\ ser_pc = "header"
    /\ Len(ser_data) >= 4
    /\ ser_header' = ser_data
    /\ IF InvalidLength(FromBytes(ser_data))
       THEN /\ ser_pos' = ser_arrived
            /\ ser_resets' = ser_resets + 1
            /\ ser_result' = Raises("ValueError")
            /\ ser_pc' = "idle"
            /\ UNCHANGED ser_data
       ELSE /\ ser_pc' = "payload"
            /\ ser_data' = <<>>
            /\ UNCHANGED <<ser_pos, ser_resets, ser_result>>
    /\ UNCHANGED <<ser_stream, ser_arrived, ser_clock, ser_deadline,
                   ser_start, ser_nread>>
    /\ UNCHANGED ser_prev
    /\ UNCHANGED notSerial

\* serial.py:133 and 143: the payload is read; header + payload is returned
PayloadRead ==
    /\ ser_pc = "payload"
    /\ Len(ser_data) >= Size
    /\ ser_result' = Returns(ser_header \o ser_data)
    /\ ser_pc' = "idle"
    /\ UNCHANGED <<ser_stream, ser_arrived, ser_pos, ser_clock, ser_deadline,
                   ser_data, ser_header, ser_start, ser_nread, ser_resets>>
    /\ UNCHANGED ser_prev
    /\ UNCHANGED notSerial

\* the device sends one frame, whose payload holds the bytes of a frame
DeviceSendsNested(b) ==
    /\ ser_stream = <<>>
    /\ ser_stream' = NestedFrame(b)
    /\ UNCHANGED <<ser_arrived, ser_pos, ser_clock, ser_pc, ser_deadline,
                   ser_data, ser_header, ser_result, ser_start, ser_nread,
                   ser_resets, ser_prev>>
    /\ UNCHANGED notSerial

\* serial.py:111, 133 and 157-174: the task is cancelled at one of the awaits
\* of _read_exact; CancelledError leaves read_frame, and the bytes in data
\* go with it
ReadCancelled ==
    /\ ser_pc \in {"header", "payload"}
    /\ ser_result' = Raises("CancelledError")
    /\ ser_pc' = "idle"
    /\ UNCHANGED <<ser_stream, ser_arrived, ser_pos, ser_clock, ser_deadline,
                   ser_data, ser_header, ser_start, ser_nread, ser_resets,
                   ser_prev>>
    /\ UNCHANGED notSerial

NextSerial ==
    \/ \E n \in HeaderLengths : DeviceSendsHeader(n)
    \/ \E b \in SerialBytes : DeviceSendsByte(b)
    \/ SerialArrive
    \/ SerialTick
    \/ \E t \in Timeouts : SerialReadFrameCall(t)
    \/ ReadExactTimeout
    \/ ReadExactRead
    \/ HeaderRead
    \/ PayloadRead

NextResync ==
    \/ \E b \in SerialBytes : DeviceSendsNested(b)
    \/ SerialArrive
    \/ SerialTick
    \/ \E t \in Timeouts : SerialReadFrameCall(t)
    \/ ReadExactTimeout
    \/ ReadExactRead
    \/ HeaderRead
    \/ PayloadRead
    \/ ReadCancelled

\* ------------------------------------------------- BLE write_frame (ble.py)
\* The client is connected when the run begins; the link may drop at any
\* await of write_frame.

\* ble.py:41 and 79-80: the MTU values the connection may have negotiated
Mtus == {4, 5, 6, 23}

\* ble.py:125  chunk_size = self._mtu - 3
ChunkSizeIsMtu(m) == m
ChunkSize(m) == m - 3

\* ble.py:134  the test that a pacing delay follows the chunk
DelayFollowsAlways(off, frame) == TRUE
DelayFollows(off, frame) == off < Len(frame)

\* ble.py:129  frame[offset:offset + chunk_size]
Slice(frame, off, size) == Take(Drop(frame, off), size)

InitBleWrite ==
    /\ w_connected = TRUE
    /\ w_mtu = 23
    /\ w_frame = <<>>
    /\ w_offset = 0
    /\ w_pc = "idle"
    /\ w_writes = <<>>
    /\ w_sleeps = 0
    /\ w_result = NoneYet

\* ble.py:118-127: write_frame(encode_frame(p)) on a connection whose MTU is m
BleWriteFrameCall(p, m) ==
    /\ w_pc = "idle"
    /\ w_mtu' = m
    /\ w_frame' = encode_frame(p)
    /\ w_offset' = 0
    /\ w_writes' = <<>>
    /\ w_sleeps' = 0
    /\ w_result' = NoneYet
    /\ w_pc' = "loop"
    /\ UNCHANGED w_connected
    /\ UNCHANGED notBleWrite

\* ble.py:128-134 and 106-116: one chunk is written
WriteChunk ==
    /\ w_pc = "loop"
    /\ w_offset < Len(w_frame)
    /\ w_connected
    /\ w_writes' = Append(w_writes, Slice(w_frame, w_offset, ChunkSize(w_mtu)))
    /\ w_offset' = w_offset + ChunkSize(w_mtu)
    /\ w_pc' = IF DelayFollows(w_offset + ChunkSize(w_mtu), w_frame)
               THEN "sleep" ELSE "loop"
    /\ UNCHANGED <<w_connected, w_mtu, w_frame, w_sleeps, w_result>>
    /\ UNCHANGED notBleWrite

\* ble.py:108-109: write_raw finds the client not connected
WriteRawNotConnected ==
    /\ w_pc = "loop"
    /\ w_offset < Len(w_frame)
    /\ ~w_connected
    /\ w_result' = Raises("ConnectionError")
    /\ w_pc' = "idle"
    /\ UNCHANGED <<w_connected, w_mtu, w_frame, w_offset, w_writes, w_sleeps>>
    /\ UNCHANGED notBleWrite

\* ble.py:112-116: write_gatt_char raises
WriteGattCharRaises ==
    /\ w_pc = "loop"
    /\ w_offset < Len(w_frame)
    /\ w_connected
    /\ w_result' = Raises("BleakError")
    /\ w_pc' = "idle"
    /\ UNCHANGED <<w_connected, w_mtu, w_frame, w_offset, w_writes, w_sleeps>>
    /\ UNCHANGED notBleWrite

\* ble.py:135: the pacing delay between two chunks
PacingDelay ==
    /\ w_pc = "sleep"
    /\ w_sleeps' = w_sleeps + 1
    /\ w_pc' = "loop"
    /\ UNCHANGED <<w_connected, w_mtu, w_frame, w_offset, w_writes, w_result>>
    /\ UNCHANGED notBleWrite

\* ble.py:128: the loop ends and write_frame returns
WriteFrameDone ==
    /\ w_pc = "loop"
    /\ ~(w_offset < Len(w_frame))
    /\ w_result' = Returns(<<>>)
    /\ w_pc' = "idle"
    /\ UNCHANGED <<w_connected, w_mtu, w_frame, w_offset, w_writes, w_sleeps>>
    /\ UNCHANGED notBleWrite

\* the link drops, or comes back
BleLinkChanges ==
    /\ w_connected' = ~w_connected
    /\ UNCHANGED <<w_mtu, w_frame, w_offset, w_pc, w_writes, w_sleeps,
                   w_result>>
    /\ UNCHANGED notBleWrite

NextBleWrite ==
    \/ \E p \in BytesUpTo(MaxPayload), m \in Mtus : BleWriteFrameCall(p, m)
    \/ WriteChunk
    \/ WriteRawNotConnected
    \/ WriteGattCharRaises
    \/ PacingDelay
    \/ WriteFrameDone
    \/ BleLinkChanges

\* -------------------------------------------------- BLE read_frame (ble.py)
\* The device sends well-formed frames; bleak hands their bytes over in
\* notifications of any size.  _on_notification runs on the event loop, so
\* only while the task calling read_frame is suspended or between calls; the
\* clock advances at the same moments.

\* The payloads of the frames the device sends
BlePayloads == {<<>>, <<1>>, <<1, 2>>}

\* ble.py:158  total_size = 4 + length
TotalSize(length) == 4 + length

\* ble.py:182  del self._rx_buffer[:total_size]
BufferCleared(buffer, total) == <<>>
BufferAfterFrame(buffer, total) == Drop(buffer, total)

Suspended == rx_pc = "idle" \/ rx_waiting

\* ble.py:193  self._rx_event.set()
EventLeftAlone(event) == event
EventAfterNotification(event) == TRUE

\* ble.py:146 and 151, 164 and 172: remaining = deadline - loop.time() is the
\* timeout of wait_for
WaitForWholeTimeout(d, t, whole) == whole
WaitFor(d, t, whole) == d - t

\* No TimeoutError yet
NothingKept == [set |-> FALSE, returned |-> 0, buffer |-> <<>>]

\* The buffer as the TimeoutError raised now finds it, and the number of
\* frames returned so far
KeptNow == [set |-> TRUE, returned |-> Len(rx_out), buffer |-> rx_buffer]

InitBleRead ==
    /\ rx_sent = <<>>
    /\ rx_wire = <<>>
    /\ rx_notified = <<>>
    /\ rx_buffer = <<>>
    /\ rx_event = FALSE
    /\ rx_pc = "idle"
    /\ rx_waiting = FALSE
    /\ rx_total = 0
    /\ rx_deadline = 0
    /\ rx_clock = 0
    /\ rx_out = <<>>
    /\ rx_result = NoneYet
    /\ rx_early = 0
    /\ rx_timeout = 0
    /\ rx_wait_until = 0
    /\ rx_kept = NothingKept

\* the device sends the frame of payload p
DeviceSendsFrame(p) ==
    /\ Len(rx_sent) < MaxBleFrames
    /\ rx_sent' = Append(rx_sent, encode_frame(p))
    /\ rx_wire' = rx_wire \o encode_frame(p)
    /\ UNCHANGED <<rx_notified, rx_buffer, rx_event, rx_pc, rx_waiting,
                   rx_total, rx_deadline, rx_clock, rx_out, rx_result,
                   rx_early>>
    /\ UNCHANGED <<rx_timeout, rx_wait_until, rx_kept>>
    /\ UNCHANGED notBleRead

\* ble.py:186-193: _on_notification(data), data being the next k bytes
OnNotification(k) ==
    /\ Suspended
    /\ k <= Len(rx_wire)
    /\ rx_buffer' = rx_buffer \o Take(rx_wire, k)
    /\ rx_event' = EventAfterNotification(rx_event)
    /\ rx_early' = IF rx_pc /= "idle" /\ rx_clock < rx_deadline
                   THEN rx_early + k ELSE rx_early
    /\ rx_notified' = rx_notified \o Take(rx_wire, k)
    /\ rx_wire' = Drop(rx_wire, k)
    /\ UNCHANGED <<rx_sent, rx_pc, rx_waiting, rx_total, rx_deadline,
                   rx_clock, rx_out, rx_result>>
    /\ UNCHANGED <<rx_timeout, rx_wait_until, rx_kept>>
    /\ UNCHANGED notBleRead

\* time passes while the task is suspended; a task whose event is set, or
\* whose wait_for has run out, is ready, and the event loop runs it before
\* it lets time pass
BleTick ==
    /\ Suspended
    /\ ~(rx_waiting /\ rx_event)
    /\ ~(rx_waiting /\ rx_clock >= rx_wait_until)
    /\ rx_clock < MaxTime
    /\ rx_clock' = rx_clock + 1
    /\ UNCHANGED <<rx_sent, rx_wire, rx_notified, rx_buffer, rx_event, rx_pc,
                   rx_waiting, rx_total, rx_deadline, rx_out, rx_result,
                   rx_early>>
    /\ UNCHANGED <<rx_timeout, rx_wait_until, rx_kept>>
    /\ UNCHANGED notBleRead

\* ble.py:137-142: read_frame(t)
BleReadFrameCall(t) ==
    /\ rx_pc = "idle"
    /\ rx_deadline' = rx_clock + t
    /\ rx_total' = 4
    /\ rx_pc' = "header"
    /\ rx_result' = NoneYet
    /\ rx_early' = Len(rx_buffer)
    /\ UNCHANGED <<rx_sent, rx_wire, rx_notified, rx_buffer, rx_event,
                   rx_waiting, rx_clock, rx_out>>
    /\ rx_timeout' = t
    /\ UNCHANGED <<rx_wait_until, rx_kept>>
    /\ UNCHANGED notBleRead

\* ble.py:145-151 and 163-172: the buffer is short and time is left; the
\* task waits for the event
BleWait ==
    /\ rx_pc \in {"header", "payload"}
    /\ ~rx_waiting
    /\ Len(rx_buffer) < rx_total
    /\ rx_deadline - rx_clock > 0
    /\ rx_waiting' = TRUE
    /\ UNCHANGED <<rx_sent, rx_wire, rx_notified, rx_buffer, rx_event, rx_pc,
                   rx_total, rx_deadline, rx_clock, rx_out, rx_result,
                   rx_early>>
    /\ rx_wait_until' = rx_clock + WaitFor(rx_deadline, rx_clock, rx_timeout)
    /\ UNCHANGED <<rx_timeout, rx_kept>>
    /\ UNCHANGED notBleRead

\* ble.py:146-148 and 164-169: the buffer is short and no time is left
BleNoTimeLeft ==
    /\ rx_pc \in {"header", "payload"}
    /\ ~rx_waiting
    /\ Len(rx_buffer) < rx_total
    /\ rx_deadline - rx_clock <= 0
    /\ rx_result' = Raises("TimeoutError")
    /\ rx_early' = 0
    /\ rx_pc' = "idle"
    /\ UNCHANGED <<rx_sent, rx_wire, rx_notified, rx_buffer, rx_event,
                   rx_waiting, rx_total, rx_deadline, rx_clock, rx_out>>
    /\ rx_kept' = KeptNow
    /\ rx_timeout' = 0
    /\ UNCHANGED rx_wait_until
    /\ UNCHANGED notBleRead

\* ble.py:151-152 and 172-173: the event is set; the wait ends and the event
\* is cleared
BleWake ==
    /\ rx_waiting
    /\ rx_event
    /\ rx_event' = FALSE
    /\ rx_waiting' = FALSE
    /\ UNCHANGED <<rx_sent, rx_wire, rx_notified, rx_buffer, rx_pc, rx_total,
                   rx_deadline, rx_clock, rx_out, rx_result,
                   rx_early>>
    /\ rx_wait_until' = 0
    /\ UNCHANGED <<rx_timeout, rx_kept>>
    /\ UNCHANGED notBleRead

\* ble.py:153-154 and 174-178: wait_for times out
BleWaitTimeout ==
    /\ rx_waiting
    /\ rx_clock >= rx_wait_until
    /\ rx_waiting' = FALSE
    /\ rx_result' = Raises("TimeoutError")
    /\ rx_early' = 0
    /\ rx_pc' = "idle"
    /\ UNCHANGED <<rx_sent, rx_wire, rx_notified, rx_buffer, rx_event,
                   rx_total, rx_deadline, rx_clock, rx_out>>
    /\ rx_kept' = KeptNow
    /\ rx_timeout' = 0
    /\ rx_wait_until' = 0
    /\ UNCHANGED notBleRead

\* ble.py:145 and 156-158: the header is buffered; the length is parsed
BleHeaderBuffered ==
    /\ rx_pc = "header"
    /\ ~rx_waiting
    /\ ~(Len(rx_buffer) < 4)
    /\ rx_total' = TotalSize(FromBytes(Take(rx_buffer, 4)))
    /\ rx_pc' = "payload"
    /\ UNCHANGED <<rx_sent, rx_wire, rx_notified, rx_buffer, rx_event,
                   rx_waiting, rx_deadline, rx_clock, rx_out, rx_result,
                   rx_early>>
    /\ UNCHANGED <<rx_timeout, rx_wait_until, rx_kept>>
    /\ UNCHANGED notBleRead

\* ble.py:163 and 180-184: the frame is buffered; it is cut off the front of
\* the buffer and returned
BleFrameBuffered ==
    /\ rx_pc = "payload"
    /\ ~rx_waiting
    /\ ~(Len(rx_buffer) < rx_total)
    /\ rx_result' = Returns(Take(rx_buffer, rx_total))
    /\ rx_out' = Append(rx_out, Take(rx_buffer, rx_total))
    /\ rx_buffer' = BufferAfterFrame(rx_buffer, rx_total)
    /\ rx_early' = 0
    /\ rx_pc' = "idle"
    /\ UNCHANGED <<rx_sent, rx_wire, rx_notified, rx_event, rx_waiting,
                   rx_total, rx_deadline, rx_clock>>
    /\ rx_timeout' = 0
    /\ UNCHANGED <<rx_wait_until, rx_kept>>
    /\ UNCHANGED notBleRead

NextBleRead ==
    \/ \E p \in BlePayloads : DeviceSendsFrame(p)
    \/ \E k \in 1..Len(rx_wire) : OnNotification(k)
    \/ BleTick
    \/ \E t \in Timeouts : BleReadFrameCall(t)
    \/ BleWait
    \/ BleNoTimeLeft
    \/ BleWake
    \/ BleWaitTimeout
    \/ BleHeaderBuffered
    \/ BleFrameBuffered

\* ------------------------------------------------ Radio facade (radio.py)
\* A field of a decoded map that may be missing is a sequence: <<>> when the
\* key is absent, <<v>> when it holds v.  The "error" field of a reply is
\* absent, null, a map, or a value of another type (text is its str()).

\* The "error" fields a reply is tried with
ErrorCodes == {<<>>, <<7>>, <<0>>, <<-1>>}
ErrorMessages == {<<>>, <<"bad value">>, <<"">>}
ErrorFields ==
    {[kind |-> k, code |-> <<>>, message |-> <<>>, text |-> ""] :
         k \in {"absent", "null"}}
    \cup {[kind |-> "str", code |-> <<>>, message |-> <<>>, text |-> "boom"],
          [kind |-> "int", code |-> <<>>, message |-> <<>>, text |-> "0"]}
    \cup {[kind |-> "map", code |-> c, message |-> m, text |-> ""] :
             c \in ErrorCodes, m \in ErrorMessages}

\* The "result" fields a reply is tried with: absent, or a map with or
\* without a "volume" entry
ResultFields ==
    {[kind |-> "absent", volume |-> <<>>]}
    \cup {[kind |-> "map", volume |-> v] : v \in {<<>>, <<5>>, <<9>>}}
Replies == [error : ErrorFields, result : ResultFields]

EmptyMap == [kind |-> "map", volume |-> <<>>]

\* d.get(key, default), for a field held as a sequence
Get(field, default) == IF field = <<>> THEN default ELSE field[1]

\* radio.py:42  err is not None, err being reply.get("error")
IsTruthy(err) ==
    /\ err.kind \notin {"absent", "null"}
    /\ ~(err.kind = "int" /\ err.text = "0")
    /\ ~(err.kind = "map" /\ err.code = <<>> /\ err.message = <<>>)
IsNotNone(err) == err.kind \notin {"absent", "null"}

CallReturned(v) ==
    [kind |-> "returned", value |-> v, code |-> 0, message |-> ""]
RpcError(code, message) ==
    [kind |-> "RpcError", value |-> EmptyMap, code |-> code,
     message |-> message]
KeyError == [kind |-> "KeyError", value |-> EmptyMap, code |-> 0, message |-> ""]

\* radio.py:41-50: what _call does with the reply of read_response
Translate(reply) ==
    LET err == reply.error
    IN  IF IsNotNone(err)
        THEN IF err.kind = "map"
             THEN RpcError(Get(err.code, -1), Get(err.message, "unknown"))
             ELSE RpcError(-1, err.text)
        ELSE CallReturned(IF reply.result.kind = "absent" THEN EmptyMap
                       ELSE reply.result)

InitRadio ==
    call = [op |-> "none",
            reply |-> [error |-> [kind |-> "absent", code |-> <<>>,
                                  message |-> <<>>, text |-> ""],
                       result |-> [kind |-> "absent", volume |-> <<>>]],
            out |-> CallReturned(EmptyMap)]

\* radio.py:33-50: _call, whose read_response returned reply
Call(reply) ==
    /\ call' = [op |-> "_call", reply |-> reply, out |-> Translate(reply)]
    /\ UNCHANGED notRadio

\* radio.py:69-71: set_volume, whose read_response returned reply
SetVolume(reply) ==
    /\ LET r == Translate(reply)
       IN  call' = [op |-> "set_volume", reply |-> reply,
                    out |-> IF r.kind /= "returned" THEN r
                            ELSE IF r.value.volume = <<>> THEN KeyError
                            ELSE [r EXCEPT !.value =
                                     [kind |-> "int", volume |-> r.value.volume]]]
    /\ UNCHANGED notRadio

NextRadio ==
    \/ \E reply \in Replies : Call(reply)
    \/ \E reply \in Replies : SetVolume(reply)

\* ------------------------- one serial port, several tasks (transports/serial.py)
\* Tasks of one event loop call connect, switch_mode, write_frame, read_frame
\* and close on one AsyncSerialRpc.  Every asyncio.to_thread call is an
\* operation on the port that begins in one step and ends in a later one:
\* between the two the event loop runs the other tasks.  task[t].busy names
\* the operation task t has in progress on the port.  A frame written is two
\* items on the wire and a flush mark, each tagged with the call that wrote
\* it; a byte of the input buffer is tagged with the device frame it belongs
\* to and its position in that frame.  The deadline of read_frame is read off
\* a clock this part does not model: _read_exact may find it passed at any
\* turn of its loop.
Tasks == {1, 2}

IdleTask == [pc |-> "idle", op |-> "none", busy |-> "none", call |-> 0,
             stage |-> "none", size |-> 0, to_read |-> 0, data |-> <<>>,
             header |-> <<>>]
NoCall == [call |-> 0, op |-> "none", out |-> Returns(<<>>)]

\* serial.py:44, 76, 84, 99, 121, 136, 157, 165  async with self._lock
LockAlwaysFree(holder) == TRUE
LockFree(holder) == holder = 0

ByteValues(s) == [i \in 1..Len(s) |-> s[i].byte]
DeviceFrame(f) ==
    [i \in 1..Len(encode_frame(<<f>>)) |->
        [frame |-> f, idx |-> i, byte |-> encode_frame(<<f>>)[i]]]

InitPort ==
    /\ port_lock = 0
    /\ port_serial = FALSE
    /\ port_in = <<>>
    /\ port_wire = <<>>
    /\ port_count = [calls |-> 0, reads |-> 0, sent |-> 0,
                     sw_calls |-> 0, sw_sent |-> 0]
    /\ task = [t \in Tasks |-> IdleTask]
    /\ task_result = [t \in Tasks |-> NoCall]

\* a task starts a call
Started(t, op, at) ==
    [IdleTask EXCEPT !.pc = at, !.op = op, !.call = port_count.calls + 1]
MayCall(t) ==
    /\ task[t].pc = "idle"
    /\ port_count.calls < MaxPortCalls
Counted == [port_count EXCEPT !.calls = @ + 1]

\* a call ends: the task is idle again and holds no lock
Ended(t, out) ==
    /\ task' = [task EXCEPT ![t] = IdleTask]
    /\ task_result' = [task_result EXCEPT
           ![t] = [call |-> task[t].call, op |-> task[t].op, out |-> out]]
    /\ port_lock' = IF port_lock = t THEN 0 ELSE port_lock
EndedAtOnce(t, op, out) ==
    /\ task' = task
    /\ task_result' = [task_result EXCEPT
           ![t] = [call |-> port_count.calls + 1, op |-> op, out |-> out]]
    /\ port_lock' = port_lock
At(t, at, busy) == [task EXCEPT ![t].pc = at, ![t].busy = busy]

\* the device sends one frame, which reaches the input buffer of the port
PortDeviceSends ==
    /\ port_serial
    /\ port_count.sent < MaxPortFrames
    /\ port_count' = [port_count EXCEPT !.sent = @ + 1]
    /\ port_in' = port_in \o DeviceFrame(port_count.sent + 1)
    /\ UNCHANGED <<port_lock, port_serial, port_wire, task, task_result>>
    /\ UNCHANGED notPort

\* serial.py:27-38  connect() as far as self._serial = ...; the tasks connect
\* a transport that has no port, one of them at a time
ConnectCall(t) ==
    /\ task[t].pc = "idle"
    /\ ~port_serial
    /\ \A u \in Tasks : task[u].op /= "connect"
    /\ task' = [task EXCEPT ![t] =
           [Started(t, "connect", "cn_open") EXCEPT !.call = 0]]
    /\ UNCHANGED <<port_lock, port_serial, port_in, port_wire, port_count,
                   task_result>>
    /\ UNCHANGED notPort

\* serial.py:38-41  _open_serial returned; the settle sleep
ConnectOpened(t) ==
    /\ task[t].pc = "cn_open"
    /\ port_serial' = TRUE
    /\ task' = At(t, "cn_lock", "none")
    /\ UNCHANGED <<port_lock, port_in, port_wire, port_count, task_result>>
    /\ UNCHANGED notPort

\* serial.py:44-47  the lock, then ser.in_waiting
ConnectQuery(t) ==
    /\ task[t].pc = "cn_lock"
    /\ LockFree(port_lock)
    /\ IF port_serial
       THEN /\ port_lock' = t
            /\ task' = At(t, "cn_query", "in_waiting")
            /\ UNCHANGED task_result
       ELSE Ended(t, Raises("AssertionError"))
    /\ UNCHANGED <<port_serial, port_in, port_wire, port_count>>
    /\ UNCHANGED notPort

\* serial.py:47-48  in_waiting returned; ser.reset_input_buffer
ConnectReset(t) ==
    /\ task[t].pc = "cn_query"
    /\ IF port_serial
       THEN /\ task' = At(t, "cn_reset", "reset_input_buffer")
            /\ UNCHANGED <<port_lock, task_result>>
       ELSE Ended(t, Raises("SerialException"))
    /\ UNCHANGED <<port_serial, port_in, port_wire, port_count>>
    /\ UNCHANGED notPort

\* serial.py:48-52
ConnectDone(t) ==
    /\ task[t].pc = "cn_reset"
    /\ IF port_serial
       THEN /\ port_in' = <<>>
            /\ Ended(t, Returns(<<>>))
       ELSE /\ port_in' = port_in
            /\ Ended(t, Raises("SerialException"))
    /\ UNCHANGED <<port_serial, port_wire, port_count>>
    /\ UNCHANGED notPort

\* serial.py:54-58  close(): self._serial.close in a thread, no lock taken
CloseCall(t) ==
    /\ MayCall(t)
    /\ port_count' = Counted
    /\ IF port_serial
       THEN /\ task' = [task EXCEPT ![t] =
                   [Started(t, "close", "cl_close") EXCEPT !.busy = "close"]]
            /\ UNCHANGED <<port_lock, task_result>>
       ELSE EndedAtOnce(t, "close", Returns(<<>>))
    /\ UNCHANGED <<port_serial, port_in, port_wire>>
    /\ UNCHANGED notPort

\* serial.py:58-60  the port is closed; self._serial = None
CloseDone(t) ==
    /\ task[t].pc = "cl_close"
    /\ port_serial' = FALSE
    /\ Ended(t, Returns(<<>>))
    /\ UNCHANGED <<port_in, port_wire, port_count>>
    /\ UNCHANGED notPort

\* serial.py:94-97  write_frame(frame)
WriteFrameCall(t) ==
    /\ MayCall(t)
    /\ port_count' = Counted
    /\ IF port_serial
       THEN /\ task' = [task EXCEPT ![t] =
                   Started(t, "write_frame", "wf_lock")]
            /\ UNCHANGED <<port_lock, task_result>>
       ELSE EndedAtOnce(t, "write_frame", Raises("ConnectionError"))
    /\ UNCHANGED <<port_serial, port_in, port_wire>>
    /\ UNCHANGED notPort

\* serial.py:99-100  the lock, then self._serial.write(frame): the first
\* byte goes out
WriteBegin(t) ==
    /\ task[t].pc = "wf_lock"
    /\ LockFree(port_lock)
    /\ IF port_serial
       THEN /\ port_lock' = t
            /\ task' = At(t, "wf_write", "write")
            /\ port_wire' = Append(port_wire,
                                   [call |-> task[t].call, item |-> "byte1"])
            /\ UNCHANGED task_result
       ELSE /\ Ended(t, Raises("AttributeError"))
            /\ UNCHANGED port_wire
    /\ UNCHANGED <<port_serial, port_in, port_count>>
    /\ UNCHANGED notPort

\* serial.py:100-101  the last byte goes out and write returns;
\* self._serial.flush
WriteFlush(t) ==
    /\ task[t].pc = "wf_write"
    /\ IF port_serial
       THEN /\ task' = At(t, "wf_flush", "flush")
            /\ port_wire' = Append(port_wire,
                                   [call |-> task[t].call, item |-> "byte2"])
            /\ UNCHANGED <<port_lock, task_result>>
       ELSE /\ Ended(t, Raises("SerialException"))
            /\ UNCHANGED port_wire
    /\ UNCHANGED <<port_serial, port_in, port_count>>
    /\ UNCHANGED notPort

\* serial.py:101  flush returned; the lock is released
WriteFlushed(t) ==
    /\ task[t].pc = "wf_flush"
    /\ IF port_serial
       THEN /\ port_wire' = Append(port_wire,
                                   [call |-> task[t].call, item |-> "flush"])
            /\ Ended(t, Returns(<<>>))
       ELSE /\ Ended(t, Raises("SerialException"))
            /\ UNCHANGED port_wire
    /\ UNCHANGED <<port_serial, port_in, port_count>>
    /\ UNCHANGED notPort

\* serial.py:88  if pending > 0
HasPendingNever(pending) == FALSE
HasPending(pending) == pending > 0

\* switch_mode returns: the calls begun and the frames the device has sent
\* up to now are noted
SwitchReturned ==
    [port_count EXCEPT !.sw_calls = port_count.calls,
                       !.sw_sent = port_count.sent]

\* serial.py:62-72  switch_mode(); the boot sleep
SwitchCall(t) ==
    /\ MayCall(t)
    /\ port_count' = Counted
    /\ IF port_serial
       THEN /\ task' = [task EXCEPT ![t] =
                   Started(t, "switch_mode", "sm_lock")]
            /\ UNCHANGED <<port_lock, task_result>>
       ELSE EndedAtOnce(t, "switch_mode", Raises("ConnectionError"))
    /\ UNCHANGED <<port_serial, port_in, port_wire>>
    /\ UNCHANGED notPort

\* serial.py:76-77  the lock, then self._serial.write of the switch byte
SwitchWrite(t) ==
    /\ task[t].pc = "sm_lock"
    /\ LockFree(port_lock)
    /\ IF port_serial
       THEN /\ port_lock' = t
            /\ task' = At(t, "sm_write", "write")
            /\ UNCHANGED task_result
       ELSE Ended(t, Raises("AttributeError"))
    /\ UNCHANGED <<port_serial, port_in, port_wire, port_count>>
    /\ UNCHANGED notPort

\* serial.py:77-78  the byte went out; self._serial.flush
SwitchFlush(t) ==
    /\ task[t].pc = "sm_write"
    /\ IF port_serial
       THEN /\ task' = At(t, "sm_flush", "flush")
            /\ port_wire' = Append(port_wire,
                                   [call |-> task[t].call, item |-> "switch"])
            /\ UNCHANGED <<port_lock, task_result>>
       ELSE /\ Ended(t, Raises("SerialException"))
            /\ UNCHANGED port_wire
    /\ UNCHANGED <<port_serial, port_in, port_count>>
    /\ UNCHANGED notPort

\* serial.py:78-81  flush returned, the lock is released; the sleep
SwitchFlushed(t) ==
    /\ task[t].pc = "sm_flush"
    /\ IF port_serial
       THEN /\ port_wire' = Append(port_wire,
                                   [call |-> task[t].call, item |-> "flush"])
            /\ task' = At(t, "sm_lock2", "none")
            /\ port_lock' = 0
            /\ UNCHANGED task_result
       ELSE /\ Ended(t, Raises("SerialException"))
            /\ UNCHANGED port_wire
    /\ UNCHANGED <<port_serial, port_in, port_count>>
    /\ UNCHANGED notPort

\* serial.py:84-87  the lock again, then ser.in_waiting
SwitchQuery(t) ==
    /\ task[t].pc = "sm_lock2"
    /\ LockFree(port_lock)
    /\ IF port_serial
       THEN /\ port_lock' = t
            /\ task' = At(t, "sm_query", "in_waiting")
            /\ UNCHANGED task_result
       ELSE Ended(t, Raises("AssertionError"))
    /\ UNCHANGED <<port_serial, port_in, port_wire, port_count>>
    /\ UNCHANGED notPort

\* serial.py:87-92  if pending > 0: ser.reset_input_buffer
SwitchQueried(t) ==
    /\ task[t].pc = "sm_query"
    /\ IF ~port_serial
       THEN /\ Ended(t, Raises("SerialException"))
            /\ UNCHANGED port_count
       ELSE IF HasPending(Len(port_in))
            THEN /\ task' = At(t, "sm_reset", "reset_input_buffer")
                 /\ UNCHANGED <<port_lock, task_result, port_count>>
            ELSE /\ Ended(t, Returns(<<>>))
                 /\ port_count' = SwitchReturned
    /\ UNCHANGED <<port_serial, port_in, port_wire>>
    /\ UNCHANGED notPort

\* serial.py:90-92
SwitchReset(t) ==
    /\ task[t].pc = "sm_reset"
    /\ IF port_serial
       THEN /\ port_in' = <<>>
            /\ Ended(t, Returns(<<>>))
            /\ port_count' = SwitchReturned
       ELSE /\ port_in' = port_in
            /\ Ended(t, Raises("SerialException"))
            /\ UNCHANGED port_count
    /\ UNCHANGED <<port_serial, port_wire>>
    /\ UNCHANGED notPort

\* serial.py:103-111  read_frame(timeout): _read_exact(4, deadline)
PortReadFrameCall(t) ==
    /\ MayCall(t)
    /\ port_count' = [Counted EXCEPT !.reads = @ + 1]
    /\ IF port_serial
       THEN /\ task' = [task EXCEPT ![t] =
                   [Started(t, "read_frame", "rx_check") EXCEPT
                       !.stage = "header", !.size = 4]]
            /\ UNCHANGED <<port_lock, task_result>>
       ELSE EndedAtOnce(t, "read_frame", Raises("ConnectionError"))
    /\ UNCHANGED <<port_serial, port_in, port_wire>>
    /\ UNCHANGED notPort

\* serial.py:150-154  remaining_time <= 0; for the payload, serial.py:134-136
ReadExactDeadline(t) ==
    /\ task[t].pc = "rx_check"
    /\ IF task[t].stage = "header"
       THEN Ended(t, Raises("TimeoutError"))
       ELSE /\ task' = At(t, "to_lock", "none")
            /\ UNCHANGED <<port_lock, task_result>>
    /\ UNCHANGED <<port_serial, port_in, port_wire, port_count>>
    /\ UNCHANGED notPort

\* serial.py:157-160  the lock, then ser.in_waiting
ReadExactQuery(t) ==
    /\ task[t].pc = "rx_check"
    /\ LockFree(port_lock)
    /\ IF port_serial
       THEN /\ port_lock' = t
            /\ task' = At(t, "rx_query", "in_waiting")
            /\ UNCHANGED task_result
       ELSE Ended(t, Raises("AssertionError"))
    /\ UNCHANGED <<port_serial, port_in, port_wire, port_count>>
    /\ UNCHANGED notPort

\* serial.py:160-164, 172-174  the lock is released; to_read, or the sleep
ReadExactQueried(t) ==
    /\ task[t].pc = "rx_query"
    /\ IF ~port_serial
       THEN Ended(t, Raises("SerialException"))
       ELSE /\ port_lock' = 0
            /\ UNCHANGED task_result
            /\ IF Len(port_in) > 0
               THEN task' = [task EXCEPT
                        ![t].pc = "rx_lock", ![t].busy = "none",
                        ![t].to_read = ToRead(Len(port_in),
                                    task[t].size - Len(task[t].data))]
               ELSE task' = At(t, "rx_check", "none")
    /\ UNCHANGED <<port_serial, port_in, port_wire, port_count>>
    /\ UNCHANGED notPort

\* serial.py:165-168  the lock again, then ser.read(to_read)
PortRead(t) ==
    /\ task[t].pc = "rx_lock"
    /\ LockFree(port_lock)
    /\ IF port_serial
       THEN /\ port_lock' = t
            /\ task' = At(t, "rx_read", "read")
            /\ UNCHANGED task_result
       ELSE Ended(t, Raises("AssertionError"))
    /\ UNCHANGED <<port_serial, port_in, port_wire, port_count>>
    /\ UNCHANGED notPort

\* What ends a _read_exact that has all its bytes.  serial.py:112-115: the
\* header is valid, _read_exact goes on with the payload (serial.py:133);
\* serial.py:143: the payload is there, read_frame returns.
AfterChunk(t, data) ==
    IF Len(data) < task[t].size
    THEN /\ task' = [task EXCEPT ![t].pc = "rx_check", ![t].busy = "none",
                                 ![t].data = data]
         /\ port_lock' = 0
         /\ UNCHANGED task_result
    ELSE IF task[t].stage = "payload"
    THEN Ended(t, Returns(task[t].header \o data))
    ELSE IF InvalidLength(FromBytes(ByteValues(data)))
    THEN /\ task' = [task EXCEPT ![t].pc = "bad_lock", ![t].busy = "none",
                                 ![t].data = data]
         /\ port_lock' = 0
         /\ UNCHANGED task_result
    ELSE /\ task' = [task EXCEPT
                ![t].pc = "rx_check", ![t].busy = "none",
                ![t].stage = "payload", ![t].header = data,
                ![t].data = <<>>,
                ![t].size = PayloadSize(FromBytes(ByteValues(data)))]
         /\ port_lock' = 0
         /\ UNCHANGED task_result

\* serial.py:168-171  read returned what the buffer held of the bytes asked
\* for (nothing, after the port's own timeout, when another task took them);
\* the lock is released
PortReadDone(t) ==
    /\ task[t].pc = "rx_read"
    /\ IF port_serial
       THEN /\ port_in' = Drop(port_in, task[t].to_read)
            /\ AfterChunk(t, task[t].data \o Take(port_in, task[t].to_read))
       ELSE /\ port_in' = port_in
            /\ Ended(t, Raises("SerialException"))
    /\ UNCHANGED <<port_serial, port_wire, port_count>>
    /\ UNCHANGED notPort

\* serial.py:121-124  an invalid length: the lock, then ser.in_waiting
InvalidQuery(t) ==
    /\ task[t].pc = "bad_lock"
    /\ LockFree(port_lock)
    /\ IF port_serial
       THEN /\ port_lock' = t
            /\ task' = At(t, "bad_query", "in_waiting")
            /\ UNCHANGED task_result
       ELSE Ended(t, Raises("AssertionError"))
    /\ UNCHANGED <<port_serial, port_in, port_wire, port_count>>
    /\ UNCHANGED notPort

\* serial.py:124-126  ser.reset_input_buffer
InvalidReset(t) ==
    /\ task[t].pc = "bad_query"
    /\ IF port_serial
       THEN /\ task' = At(t, "bad_reset", "reset_input_buffer")
            /\ UNCHANGED <<port_lock, task_result>>
       ELSE Ended(t, Raises("SerialException"))
    /\ UNCHANGED <<port_serial, port_in, port_wire, port_count>>
    /\ UNCHANGED notPort

\* serial.py:126-127
InvalidRaise(t) ==
    /\ task[t].pc = "bad_reset"
    /\ IF port_serial
       THEN /\ port_in' = <<>>
            /\ Ended(t, Raises("ValueError"))
       ELSE /\ port_in' = port_in
            /\ Ended(t, Raises("SerialException"))
    /\ UNCHANGED <<port_serial, port_wire, port_count>>
    /\ UNCHANGED notPort

\* serial.py:136-139  the payload timed out: the lock, then ser.in_waiting
TimeoutQuery(t) ==
    /\ task[t].pc = "to_lock"
    /\ LockFree(port_lock)
    /\ IF port_serial
       THEN /\ port_lock' = t
            /\ task' = At(t, "to_query", "in_waiting")
            /\ UNCHANGED task_result
       ELSE Ended(t, Raises("AssertionError"))
    /\ UNCHANGED <<port_serial, port_in, port_wire, port_count>>
    /\ UNCHANGED notPort

\* serial.py:139-141  raise
TimeoutRaise(t) ==
    /\ task[t].pc = "to_query"
    /\ IF port_serial
       THEN Ended(t, Raises("TimeoutError"))
       ELSE Ended(t, Raises("SerialException"))
    /\ UNCHANGED <<port_serial, port_in, port_wire, port_count>>
    /\ UNCHANGED notPort

NextPort ==
    \/ PortDeviceSends
    \/ \E t \in Tasks : ConnectCall(t)
    \/ \E t \in Tasks : ConnectOpened(t)
    \/ \E t \in Tasks : ConnectQuery(t)
    \/ \E t \in Tasks : ConnectReset(t)
    \/ \E t \in Tasks : ConnectDone(t)
    \/ \E t \in Tasks : CloseCall(t)
    \/ \E t \in Tasks : CloseDone(t)
    \/ \E t \in Tasks : WriteFrameCall(t)
    \/ \E t \in Tasks : WriteBegin(t)
    \/ \E t \in Tasks : WriteFlush(t)
    \/ \E t \in Tasks : WriteFlushed(t)
    \/ \E t \in Tasks : SwitchCall(t)
    \/ \E t \in Tasks : SwitchWrite(t)
    \/ \E t \in Tasks : SwitchFlush(t)
    \/ \E t \in Tasks : SwitchFlushed(t)
    \/ \E t \in Tasks : SwitchQuery(t)
    \/ \E t \in Tasks : SwitchQueried(t)
    \/ \E t \in Tasks : SwitchReset(t)
    \/ \E t \in Tasks : PortReadFrameCall(t)
    \/ \E t \in Tasks : ReadExactDeadline(t)
    \/ \E t \in Tasks : ReadExactQuery(t)
    \/ \E t \in Tasks : ReadExactQueried(t)
    \/ \E t \in Tasks : PortRead(t)
    \/ \E t \in Tasks : PortReadDone(t)
    \/ \E t \in Tasks : InvalidQuery(t)
    \/ \E t \in Tasks : InvalidReset(t)
    \/ \E t \in Tasks : InvalidRaise(t)
    \/ \E t \in Tasks : TimeoutQuery(t)
    \/ \E t \in Tasks : TimeoutRaise(t)

\* serial.py:99, 157, 165  async with self._lock: CancelledError leaves the
\* block and releases the lock the task holds
LockKeptByCancelled(holder, t) == holder
LockAfterCancel(holder, t) == IF holder = t THEN 0 ELSE holder

\* serial.py:99-101, 157-174: a task suspended in write_frame or read_frame
\* (waiting for the lock, for asyncio.to_thread or in the sleep) is cancelled.
\* The call in the thread is not interrupted: a write that has begun puts the
\* rest of the frame on the wire, a read or a flush is carried out unless the
\* thread had not begun it.
Cancel(t) ==
    /\ task[t].op \in {"read_frame", "write_frame"}
    /\ task[t].pc /= "idle"
    /\ task' = [task EXCEPT ![t] = IdleTask]
    /\ task_result' = [task_result EXCEPT
           ![t] = [call |-> task[t].call, op |-> task[t].op,
                   out |-> Raises("CancelledError")]]
    /\ port_lock' = LockAfterCancel(port_lock, t)
    /\ \/ /\ task[t].busy = "write"
          /\ port_wire' = Append(port_wire,
                                 [call |-> task[t].call, item |-> "byte2"])
          /\ UNCHANGED port_in
       \/ /\ task[t].busy = "flush"
          /\ port_wire' = Append(port_wire,
                                 [call |-> task[t].call, item |-> "flush"])
          /\ UNCHANGED port_in
       \/ /\ task[t].busy = "read"
          /\ port_in' = Drop(port_in, task[t].to_read)
          /\ UNCHANGED port_wire
       \/ /\ task[t].busy /= "write"
          /\ UNCHANGED <<port_in, port_wire>>
    /\ UNCHANGED <<port_serial, port_count>>
    /\ UNCHANGED notPort

\* What task t does next in a call it has begun
TaskStep(t) ==
    \/ ConnectOpened(t) \/ ConnectQuery(t) \/ ConnectReset(t) \/ ConnectDone(t)
    \/ WriteBegin(t) \/ WriteFlush(t) \/ WriteFlushed(t)
    \/ ReadExactDeadline(t) \/ ReadExactQuery(t) \/ ReadExactQueried(t)
    \/ PortRead(t) \/ PortReadDone(t)
    \/ InvalidQuery(t) \/ InvalidReset(t) \/ InvalidRaise(t)
    \/ TimeoutQuery(t) \/ TimeoutRaise(t)

\* A call of task 1 has been cancelled
OneCancelled == task_result[1].out = Raises("CancelledError")

\* Task 1 connects the transport and calls write_frame and read_frame, the
\* device sending a frame when the input buffer is empty; a supervisor may
\* cancel task 1 in a call; after a cancellation task 2 makes its calls.
NextCancel ==
    \/ port_in = <<>> /\ PortDeviceSends
    \/ ConnectCall(1)
    \/ WriteFrameCall(1)
    \/ PortReadFrameCall(1)
    \/ OneCancelled /\ WriteFrameCall(2)
    \/ OneCancelled /\ PortReadFrameCall(2)
    \/ \E t \in Tasks : TaskStep(t)
    \/ Cancel(1)

\* The event loop runs a task that stays ready, and the clock reaches the
\* deadline of a read_frame however often _read_exact polls before it
CancelFairness ==
    \A t \in Tasks :
        /\ WF_vars(TaskStep(t))
        /\ SF_vars(ReadExactDeadline(t))

\* ------------------------------ one BLE client, several writers (ble.py)
\* Tasks of one event loop call write_frame on one AsyncBleRpc.  The event
\* loop runs the other tasks at every await: while write_gatt_char is
\* awaited and during the pacing sleep.  What reaches the RX characteristic
\* is a sequence of chunks, each tagged with the call that wrote it.
SharedMtus == {5, 23}
DefaultMtu == 517
SharedPayloads == {<<>>, <<1>>}

IdleWriter == [pc |-> "idle", call |-> 0, frame |-> <<>>, offset |-> 0]

InitBleShared ==
    /\ bw_mtu = DefaultMtu
    /\ bw_connected = FALSE
    /\ bw_char = <<>>
    /\ bw_calls = 0
    /\ bw_task = [t \in Tasks |-> IdleWriter]
    /\ bw_result = [t \in Tasks |-> NoCall]

WriterEnded(t, out) ==
    /\ bw_task' = [bw_task EXCEPT ![t] = IdleWriter]
    /\ bw_result' = [bw_result EXCEPT
           ![t] = [call |-> bw_task[t].call, op |-> "write_frame",
                   out |-> out]]

\* ble.py:43-81  connect() returns, while no write_frame is in progress: the
\* link is up and self._mtu is the MTU it negotiated
SharedConnect(m) ==
    /\ ~bw_connected
    /\ \A t \in Tasks : bw_task[t].pc = "idle"
    /\ bw_connected' = TRUE
    /\ bw_mtu' = m
    /\ UNCHANGED <<bw_char, bw_calls, bw_task, bw_result>>
    /\ UNCHANGED notBleShared

\* ble.py:118-127  write_frame(encode_frame(p)); no lock is taken
SharedWriteFrameCall(t, p) ==
    /\ bw_task[t].pc = "idle"
    /\ bw_calls < MaxSharedWrites
    /\ bw_calls' = bw_calls + 1
    /\ bw_task' = [bw_task EXCEPT ![t] =
           [pc |-> "loop", call |-> bw_calls + 1, frame |-> encode_frame(p),
            offset |-> 0]]
    /\ UNCHANGED <<bw_mtu, bw_connected, bw_char, bw_result>>
    /\ UNCHANGED notBleShared

\* ble.py:128-134 and 106-116: write_raw writes one chunk
SharedWriteChunk(t) ==
    /\ bw_task[t].pc = "loop"
    /\ bw_task[t].offset < Len(bw_task[t].frame)
    /\ bw_connected
    /\ bw_char' = Append(bw_char,
           [call |-> bw_task[t].call, offset |-> bw_task[t].offset,
            data |-> Slice(bw_task[t].frame, bw_task[t].offset,
                           ChunkSize(bw_mtu))])
    /\ bw_task' = [bw_task EXCEPT
           ![t].offset = @ + ChunkSize(bw_mtu),
           ![t].pc = IF DelayFollows(bw_task[t].offset + ChunkSize(bw_mtu),
                                     bw_task[t].frame)
                     THEN "sleep" ELSE "loop"]
    /\ UNCHANGED <<bw_mtu, bw_connected, bw_calls, bw_result>>
    /\ UNCHANGED notBleShared

\* ble.py:108-109: write_raw finds the client not connected
SharedWriteNotConnected(t) ==
    /\ bw_task[t].pc = "loop"
    /\ bw_task[t].offset < Len(bw_task[t].frame)
    /\ ~bw_connected
    /\ WriterEnded(t, Raises("ConnectionError"))
    /\ UNCHANGED <<bw_mtu, bw_connected, bw_char, bw_calls>>
    /\ UNCHANGED notBleShared

\* ble.py:135: the pacing delay is over
SharedPacingDelay(t) ==
    /\ bw_task[t].pc = "sleep"
    /\ bw_task' = [bw_task EXCEPT ![t].pc = "loop"]
    /\ UNCHANGED <<bw_mtu, bw_connected, bw_char, bw_calls, bw_result>>
    /\ UNCHANGED notBleShared

\* ble.py:128: the loop ends and write_frame returns
SharedWriteDone(t) ==
    /\ bw_task[t].pc = "loop"
    /\ ~(bw_task[t].offset < Len(bw_task[t].frame))
    /\ WriterEnded(t, Returns(<<>>))
    /\ UNCHANGED <<bw_mtu, bw_connected, bw_char, bw_calls>>
    /\ UNCHANGED notBleShared

\* the link drops
SharedLinkDrops ==
    /\ bw_connected
    /\ bw_connected' = FALSE
    /\ UNCHANGED <<bw_mtu, bw_char, bw_calls, bw_task, bw_result>>
    /\ UNCHANGED notBleShared

NextBleShared ==
    \/ \E m \in SharedMtus : SharedConnect(m)
    \/ \E t \in Tasks, p \in SharedPayloads : SharedWriteFrameCall(t, p)
    \/ \E t \in Tasks : SharedWriteChunk(t)
    \/ \E t \in Tasks : SharedWriteNotConnected(t)
    \/ \E t \in Tasks : SharedPacingDelay(t)
    \/ \E t \in Tasks : SharedWriteDone(t)
    \/ SharedLinkDrops

\* --------------------------- WebSocket frames (transports/websocket.py)
\* The connection of the websockets library carries whole messages: the
\* peer's messages wait in ws_inbox until recv() takes the first, and send()
\* puts one message on the wire.  A binary message is bytes, a text message
\* is a str.
WsMessages == { [kind |-> "binary", data |-> encode_frame(<<>>)],
                [kind |-> "binary", data |-> encode_frame(<<1>>)],
                [kind |-> "binary", data |-> <<7>>],
                [kind |-> "text", data |-> <<>>] }
WsFrames == {encode_frame(<<>>), encode_frame(<<1>>)}

NoWsCall == [op |-> "none", arg |-> <<>>, before |-> 0, out |-> NoneYet]

\* websocket.py:46  await self._ws.send(frame): what goes on the wire
SentAs(frame) == <<frame>>

\* websocket.py:61  isinstance(message, str)
IsStrNever(message) == FALSE
IsStr(message) == message.kind = "text"

InitWs ==
    /\ ws_open = FALSE
    /\ ws_inbox = <<>>
    /\ ws_peer = <<>>
    /\ ws_nread = 0
    /\ ws_sent = <<>>
    /\ ws_pc = "idle"
    /\ ws_deadline = 0
    /\ ws_clock = 0
    /\ ws_result = NoWsCall

\* websocket.py:20-31  connect() returns
WsLinkOpens ==
    /\ ws_pc = "idle"
    /\ ~ws_open
    /\ ws_open' = TRUE
    /\ ws_result' = [op |-> "connect", arg |-> <<>>, before |-> ws_nread,
                     out |-> Returns(<<>>)]
    /\ UNCHANGED <<ws_inbox, ws_peer, ws_nread, ws_sent, ws_pc, ws_deadline,
                   ws_clock>>
    /\ UNCHANGED notWs

\* websocket.py:33-39  close() returns; the messages not taken are lost
WsLinkCloses ==
    /\ ws_pc = "idle"
    /\ ws_open
    /\ ws_open' = FALSE
    /\ ws_inbox' = <<>>
    /\ ws_nread' = Len(ws_peer)
    /\ ws_result' = [op |-> "close", arg |-> <<>>, before |-> ws_nread,
                     out |-> Returns(<<>>)]
    /\ UNCHANGED <<ws_peer, ws_sent, ws_pc, ws_deadline, ws_clock>>
    /\ UNCHANGED notWs

\* the peer sends a message
WsPeerSends(m) ==
    /\ ws_open
    /\ Len(ws_peer) < MaxWsMessages
    /\ ws_peer' = Append(ws_peer, m)
    /\ ws_inbox' = Append(ws_inbox, m)
    /\ UNCHANGED <<ws_open, ws_nread, ws_sent, ws_pc, ws_deadline, ws_clock,
                   ws_result>>
    /\ UNCHANGED notWs

\* time passes while the task is idle or suspended in recv(); a recv() that
\* has a message to take, or whose timeout is due, runs first
WsTick ==
    /\ ws_clock < MaxTime
    /\ ws_pc = "recv" => (ws_inbox = <<>> /\ ws_clock < ws_deadline)
    /\ ws_clock' = ws_clock + 1
    /\ UNCHANGED <<ws_open, ws_inbox, ws_peer, ws_nread, ws_sent, ws_pc,
                   ws_deadline, ws_result>>
    /\ UNCHANGED notWs

\* websocket.py:41-46  write_frame(frame)
WsWriteFrameCall(frame) ==
    /\ ws_pc = "idle"
    /\ Len(ws_sent) < MaxWsMessages
    /\ IF ws_open
       THEN /\ ws_sent' = ws_sent \o SentAs(frame)
            /\ ws_result' = [op |-> "write_frame", arg |-> frame,
                             before |-> Len(ws_sent), out |-> Returns(<<>>)]
       ELSE /\ ws_sent' = ws_sent
            /\ ws_result' = [op |-> "write_frame", arg |-> frame,
                             before |-> Len(ws_sent),
                             out |-> Raises("ConnectionError")]
    /\ UNCHANGED <<ws_open, ws_inbox, ws_peer, ws_nread, ws_pc, ws_deadline,
                   ws_clock>>
    /\ UNCHANGED notWs

\* websocket.py:46  send() raises: the connection is closed
WsSendRaises(frame) ==
    /\ ws_pc = "idle"
    /\ ws_open
    /\ ws_result' = [op |-> "write_frame", arg |-> frame,
                     before |-> Len(ws_sent),
                     out |-> Raises("ConnectionClosed")]
    /\ UNCHANGED <<ws_open, ws_inbox, ws_peer, ws_nread, ws_sent, ws_pc,
                   ws_deadline, ws_clock>>
    /\ UNCHANGED notWs

\* websocket.py:48-57  read_frame(t) as far as wait_for(self._ws.recv(), t)
WsReadFrameCall(t) ==
    /\ ws_pc = "idle"
    /\ IF ws_open
       THEN /\ ws_pc' = "recv"
            /\ ws_deadline' = ws_clock + t
            /\ ws_result' = [op |-> "read_frame", arg |-> <<>>,
                             before |-> ws_nread, out |-> NoneYet]
       ELSE /\ ws_pc' = "idle"
            /\ ws_deadline' = ws_deadline
            /\ ws_result' = [op |-> "read_frame", arg |-> <<>>,
                             before |-> ws_nread,
                             out |-> Raises("ConnectionError")]
    /\ UNCHANGED <<ws_open, ws_inbox, ws_peer, ws_nread, ws_sent, ws_clock>>
    /\ UNCHANGED notWs

\* websocket.py:54-64  recv() returns the first waiting message
WsRecvReturns ==
    /\ ws_pc = "recv"
    /\ ws_inbox /= <<>>
    /\ ws_clock <= ws_deadline
    /\ ws_inbox' = Tail(ws_inbox)
    /\ ws_nread' = ws_nread + 1
    /\ ws_pc' = "idle"
    /\ ws_result' = [ws_result EXCEPT
           !.out = IF IsStr(Head(ws_inbox))
                   THEN Raises("ValueError")
                   ELSE Returns(Head(ws_inbox).data)]
    /\ UNCHANGED <<ws_open, ws_peer, ws_sent, ws_deadline, ws_clock>>
    /\ UNCHANGED notWs

\* websocket.py:58-59  wait_for times out
WsRecvTimeout ==
    /\ ws_pc = "recv"
    /\ ws_clock >= ws_deadline
    /\ ws_pc' = "idle"
    /\ ws_result' = [ws_result EXCEPT !.out = Raises("TimeoutError")]
    /\ UNCHANGED <<ws_open, ws_inbox, ws_peer, ws_nread, ws_sent,
                   ws_deadline, ws_clock>>
    /\ UNCHANGED notWs

NextWs ==
    \/ WsLinkOpens
    \/ WsLinkCloses
    \/ \E m \in WsMessages : WsPeerSends(m)
    \/ WsTick
    \/ \E f \in WsFrames : WsWriteFrameCall(f)
    \/ \E f \in WsFrames : WsSendRaises(f)
    \/ \E t \in FrameTimeouts : WsReadFrameCall(t)
    \/ WsRecvReturns
    \/ WsRecvTimeout

\* ------------------------------- async with transport (base.py:190-198)
\* One scope on a fresh transport: __aenter__ awaits connect() and returns,
\* the body runs frame operations and returns or raises, __aexit__ awaits
\* close() and returns False.  connect(), close() and the frame operations
\* are those of the lifecycle part; `last` tells how the awaited call ended.
InitScope ==
    /\ scope_pc = "outside"
    /\ scope_body = "none"
    /\ scope_out = "none"

\* base.py:192  await self.connect()
AenterConnect ==
    /\ scope_pc = "outside"
    /\ last.op = "none"
    /\ \/ SerialConnectOpenFails
       \/ SerialConnectFlushFails
       \/ SerialConnect
       \/ WsConnectFails
       \/ WsConnect
       \/ BleConnectNotFound
       \/ BleConnectLinkFails
       \/ BleConnectNotifyFails
       \/ BleConnect

\* base.py:193  return self: the body starts
AenterReturns ==
    /\ scope_pc = "outside"
    /\ last.op = "connect"
    /\ last.outcome = "ok"
    /\ scope_pc' = "body"
    /\ UNCHANGED <<scope_body, scope_out>>
    /\ UNCHANGED notScope

\* base.py:192  connect() raised: the exception leaves __aenter__, the body
\* does not run and __aexit__ is not called
AenterRaises ==
    /\ scope_pc = "outside"
    /\ last.op = "connect"
    /\ last.outcome /= "ok"
    /\ scope_pc' = "left"
    /\ scope_out' = "connect"
    /\ UNCHANGED scope_body
    /\ UNCHANGED notScope

\* the body of the scope uses the transport, and the link has its events
BodyStep ==
    /\ scope_pc = "body"
    /\ \/ SerialWriteFrame
       \/ \E t \in FrameTimeouts : SerialReadFrame(t)
       \/ WsWriteFrame
       \/ \E t \in FrameTimeouts : WsReadFrame(t)
       \/ \E n \in 1..MaxChunks : BleWriteFrame(n)
       \/ \E t \in FrameTimeouts : BleReadFrame(t)
       \/ BleNotification
       \/ BleOnDisconnect

\* the body finishes normally: __aexit__(None, None, None) is called
BodyReturns ==
    /\ scope_pc = "body"
    /\ scope_pc' = "aexit"
    /\ scope_body' = "returned"
    /\ UNCHANGED scope_out
    /\ UNCHANGED notScope

\* the body raises: __aexit__ is called with its exception
BodyRaises ==
    /\ scope_pc = "body"
    /\ scope_pc' = "aexit"
    /\ scope_body' = "raised"
    /\ UNCHANGED scope_out
    /\ UNCHANGED notScope

\* base.py:197  await self.close()
AexitClose ==
    /\ scope_pc = "aexit"
    /\ last.op /= "close"
    /\ \/ SerialClose
       \/ SerialCloseRaises
       \/ WsClose
       \/ WsCloseRaises
       \/ BleClose
       \/ BleCloseRaises
       \/ BleCloseNotConnected

\* base.py:198  return False: the exception of the body, if any, goes on
AexitReturns ==
    /\ scope_pc = "aexit"
    /\ last.op = "close"
    /\ last.outcome = "ok"
    /\ scope_pc' = "left"
    /\ scope_out' = IF scope_body = "raised" THEN "body" ELSE "none"
    /\ UNCHANGED scope_body
    /\ UNCHANGED notScope

\* base.py:197  close() raised: its exception leaves __aexit__ and the scope,
\* in place of the exception of the body
AexitRaises ==
    /\ scope_pc = "aexit"
    /\ last.op = "close"
    /\ last.outcome /= "ok"
    /\ scope_pc' = "left"
    /\ scope_out' = "close"
    /\ UNCHANGED scope_body
    /\ UNCHANGED notScope

NextScope ==
    \/ AenterConnect
    \/ AenterReturns
    \/ AenterRaises
    \/ BodyStep
    \/ BodyReturns
    \/ BodyRaises
    \/ AexitClose
    \/ AexitReturns
    \/ AexitRaises

\* ------------------------- the TUI's event monitor (client/.../tui.py)
\* The TUI holds one transport.  Its foreground commands (cmd_status) send
\* a request and await read_response; its monitor task loops on
\* read_message.  Both take decoded messages off the one incoming stream,
\* tui_in: a pending read takes the first message that is there.  The
\* timeouts are read off a clock this part does not model.
IdleForeground == [pc |-> "idle", id |-> 0, out |-> "none"]
MonitorOff == [pc |-> "off", responses |-> {}, events |-> 0]

InitTui ==
    /\ tui = [state |-> "disconnected", next_id |-> 1, pending |-> {},
              events |-> 0]
    /\ tui_in = <<>>
    /\ mon = MonitorOff
    /\ fg = IdleForeground

\* tui.py:354-358  request("status.get"), then read_response(req_id)
StatusRequested ==
    [pc |-> "reading", id |-> tui.next_id, out |-> "none"]
AfterRequest(state) ==
    [tui EXCEPT !.state = state, !.next_id = @ + 1,
                !.pending = @ \cup {tui.next_id}]

\* tui.py:241-292  cmd_connect: the transport connects, connection_lost is
\* reset, and the initial cmd_status() is awaited
CmdConnect ==
    /\ tui.state = "disconnected"
    /\ tui.next_id <= MaxTuiRequests
    /\ tui' = AfterRequest("connecting")
    /\ fg' = StatusRequested
    /\ UNCHANGED <<tui_in, mon>>
    /\ UNCHANGED notTui

\* tui.py:296-297 and 626-634  the initial status is over: the monitor task
\* is created and, unless the connection is lost, awaits read_message
MonitorStart ==
    /\ tui.state \in {"connecting", "lost"}
    /\ mon.pc = "off"
    /\ fg.pc = "idle"
    /\ mon' = [mon EXCEPT !.pc = IF tui.state = "lost" THEN "stopped"
                                 ELSE "reading"]
    /\ tui' = [tui EXCEPT !.state = IF tui.state = "lost" THEN "lost"
                                   ELSE "connected"]
    /\ UNCHANGED <<tui_in, fg>>
    /\ UNCHANGED notTui

\* tui.py:347-358  cmd_status: the request is sent and read_response awaited
CmdStatus ==
    /\ tui.state = "connected"
    /\ fg.pc = "idle"
    /\ tui.next_id <= MaxTuiRequests
    /\ tui' = AfterRequest("connected")
    /\ fg' = StatusRequested
    /\ UNCHANGED <<tui_in, mon>>
    /\ UNCHANGED notTui

\* the device answers a request
DeviceResponds(id) ==
    /\ id \in tui.pending
    /\ tui' = [tui EXCEPT !.pending = @ \ {id}]
    /\ tui_in' = Append(tui_in, [type |-> "response", id |-> id])
    /\ UNCHANGED <<mon, fg>>
    /\ UNCHANGED notTui

\* the device sends an event
DeviceEmits ==
    /\ tui.state \in {"connecting", "connected"}
    /\ tui.events < MaxTuiEvents
    /\ tui' = [tui EXCEPT !.events = @ + 1]
    /\ tui_in' = Append(tui_in, [type |-> "event", id |-> 0])
    /\ UNCHANGED <<mon, fg>>
    /\ UNCHANGED notTui

\* tui.py:634-658  the monitor's read_message returns a message: an event
\* is logged, anything else is dropped; the loop goes on
MonitorTakes ==
    /\ mon.pc = "reading"
    /\ tui_in /= <<>>
    /\ tui_in' = Tail(tui_in)
    /\ mon' = IF IsEvent(Head(tui_in))
              THEN [mon EXCEPT !.events = @ + 1]
              ELSE [mon EXCEPT !.responses = @ \cup {Head(tui_in).id}]
    /\ UNCHANGED <<tui, fg>>
    /\ UNCHANGED notTui

\* tui.py:632, 664-666  the monitor's read_message times out and the loop
\* finds connection_lost set
MonitorLoopEnds ==
    /\ mon.pc = "reading"
    /\ tui.state = "lost"
    /\ mon' = [mon EXCEPT !.pc = "stopped"]
    /\ UNCHANGED <<tui, tui_in, fg>>
    /\ UNCHANGED notTui

\* tui.py:355-358 and base.py:165-188  the foreground read_response reads a
\* message: the Response it awaits ends it, anything else is discarded
ForegroundTakes ==
    /\ fg.pc = "reading"
    /\ tui_in /= <<>>
    /\ tui_in' = Tail(tui_in)
    /\ fg' = IF ~IsEvent(Head(tui_in)) /\ IdMatches(Head(tui_in), fg.id)
             THEN [fg EXCEPT !.pc = "idle", !.out = "response"]
             ELSE fg
    /\ UNCHANGED <<tui, mon>>
    /\ UNCHANGED notTui

\* tui.py:374-376, 613-624  the status request times out:
\* _handle_connection_lost sets connection_lost
ForegroundTimeout ==
    /\ fg.pc = "reading"
    /\ fg' = [fg EXCEPT !.pc = "idle", !.out = "timeout"]
    /\ tui' = [tui EXCEPT !.state = "lost"]
    /\ UNCHANGED <<tui_in, mon>>
    /\ UNCHANGED notTui

\* tui.py:311-345  cmd_disconnect: the monitor task is cancelled and the
\* transport closed
CmdDisconnect ==
    /\ tui.state \in {"connected", "lost"}
    /\ mon.pc /= "off"
    /\ fg.pc = "idle"
    /\ tui' = [tui EXCEPT !.state = "disconnected", !.pending = {}]
    /\ tui_in' = <<>>
    /\ mon' = [mon EXCEPT !.pc = "off"]
    /\ UNCHANGED fg
    /\ UNCHANGED notTui

NextTui ==
    \/ CmdConnect
    \/ MonitorStart
    \/ CmdStatus
    \/ \E id \in 1..MaxTuiRequests : DeviceResponds(id)
    \/ DeviceEmits
    \/ MonitorTakes
    \/ MonitorLoopEnds
    \/ ForegroundTakes
    \/ ForegroundTimeout
    \/ CmdDisconnect

\* ------------------------------------------------ one RPC call (radio.py)
\* radio.py:39-40: request(method, params), then read_response on the id it
\* returned; an error of request leaves _call before read_response.
CallRequest ==
    /\ reqLog = <<>>
    /\ Request(None)

CallReadResponse ==
    /\ Len(reqLog) = 1
    /\ reqLog[1].state = "returned"
    /\ NextRead

NextCall ==
    \/ CallRequest
    \/ \E i \in 1..Len(reqLog) : WriteFrameReturns(i)
    \/ \E i \in 1..Len(reqLog) : WriteFrameRaises(i)
    \/ CallReadResponse

\* --------------------------------------------------------- specifications

Init ==
    /\ InitRead
    /\ InitRequest
    /\ InitLife
    /\ InitCodec
    /\ InitSerial
    /\ InitBleWrite
    /\ InitBleRead
    /\ InitRadio
    /\ InitPort
    /\ InitBleShared
    /\ InitWs
    /\ InitScope
    /\ InitTui
    /\ InitMsg
    /\ InitLegacy

\* The engine of base.py does not look at the class of its transport: its
\* calls are followed on one class.
InitEngine == Init /\ transport = "serial"

\* The message-level calls of websocket.py are followed on its class.
InitWsClass == Init /\ transport = "websocket"

\* The byte-level calls of ble.py are followed on the BLE class.
InitBle == Init /\ transport = "ble"

\* read_response calls, one after the other, on a transport that delivers
\* frames as time passes
SpecRead == InitEngine /\ [][NextRead]_vars

\* read_message calls, one after the other, on a transport that delivers
\* frames
SpecMsg == InitEngine /\ [][NextMsg]_vars

\* request() calls on one engine instance
\* The legacy client and the engine, given the same frames at the same instants.
SpecLegacy == InitEngine /\ [][NextLegacy]_vars

SpecRequest == InitEngine /\ [][NextRequest]_vars

\* one request() call, followed when it returns by read_response calls
SpecCall == InitEngine /\ [][NextCall]_vars

\* connect, close, write_frame and read_frame calls, one after the other, on
\* one transport instance
SpecLife == Init /\ [][NextLife]_vars

\* read_frame calls on an open serial port, one after the other, while the
\* device sends bytes
SpecSerial == InitEngine /\ [][NextSerial]_vars

\* read_frame calls on an open serial port, some given up part-way, while
\* the device sends a frame whose payload holds the bytes of a frame
SpecResync == InitEngine /\ [][NextResync]_vars

\* write_frame calls on a BLE client, one after the other
SpecBleWrite == InitBle /\ [][NextBleWrite]_vars

\* read_frame calls on a BLE client, one after the other, while the device
\* sends frames
SpecBleRead == InitBle /\ [][NextBleRead]_vars

\* tasks calling connect, switch_mode, write_frame, read_frame and close on
\* one serial transport, in every interleaving
SpecPort == InitEngine /\ [][NextPort]_vars

\* a task calling write_frame and read_frame on one serial transport, some
\* of its calls cancelled, and a second task calling after a cancellation;
\* every task that can run is run
SpecCancel == InitEngine /\ [][NextCancel]_vars /\ CancelFairness

\* tasks calling write_frame on one BLE transport, in every interleaving
SpecBleShared == InitBle /\ [][NextBleShared]_vars

\* write_frame and read_frame calls on a WebSocket transport, one after the
\* other, while the peer sends messages
SpecWs == InitWsClass /\ [][NextWs]_vars

\* one async with scope on a fresh transport of each class
SpecScope == Init /\ [][NextScope]_vars

\* the TUI connects, runs status commands and disconnects while its monitor
\* task runs
SpecTui == InitEngine /\ [][NextTui]_vars

\* calls of the Radio facade
SpecRadio == InitEngine /\ [][NextRadio]_vars

\* encode_frame and decode_frame calls
SpecCodec == InitEngine /\ [][NextCodec]_vars

\* ------------------------------------------------ claims on read_response

\* The message schema's variants: an Event has type "event"; a Response has
\* type "response" or no type field.
EventMsg(m) == m.type = "event"
ResponseFor(m, id) == m.type /= "event" /\ m.id = id

\* A read_response call has ended by returning or by TimeoutError (the
\* transport itself did not fail).
CallEnded == pc = "idle" /\ result.kind \in {"msg", "TimeoutError"}

\* The frames the call found from its start on begin with n Events and then
\* a Response for the awaited id, all of them arrived before the deadline.
EventsThenMatch(n) ==
    /\ startRead + n + 1 <= Len(stream)
    /\ \A i \in 1..n : EventMsg(stream[startRead + i].msg)
    /\ ResponseFor(stream[startRead + n + 1].msg, request_id)
    /\ \A i \in 1..(n + 1) : stream[startRead + i].at < deadline

ReturnedAfter(n) ==
    /\ result.kind = "msg"
    /\ result.idx = startRead + n + 1
    /\ result.msg = stream[startRead + n + 1].msg
    /\ nread = startRead + n + 1

\* C1 as stated: N Events then the matching Response, all arrived before the
\* deadline: read_response returns that Response, having read N+1 frames.
C1_AsStated ==
    CallEnded => \A n \in 0..MaxFrames : EventsThenMatch(n) => ReturnedAfter(n)

\* C1, amended: the same for every call whose timeout is positive.
C1_EventsThenResponse ==
    (CallEnded /\ timeout > 0) =>
        \A n \in 0..MaxFrames : EventsThenMatch(n) => ReturnedAfter(n)

C1_Witness ==
    /\ CallEnded
    /\ timeout > 0
    /\ EventsThenMatch(1)
    /\ ReturnedAfter(1)

\* No Response for the awaited id arrived before the deadline.
NoMatchBeforeDeadline ==
    \A i \in (startRead + 1)..Len(stream) :
        ResponseFor(stream[i].msg, request_id) => stream[i].at >= deadline

\* C2: read_response fails with TimeoutError whenever no matching Response
\* arrives before the deadline, whatever else arrives, and it is never still
\* running, nor waiting for a frame, past the deadline.
C2_TimeoutWithoutMatch ==
    /\ pc /= "idle" => now <= deadline
    /\ pc = "read_frame" => rfDeadline <= deadline
    /\ (CallEnded /\ NoMatchBeforeDeadline) => result.kind = "TimeoutError"

C2_Witness ==
    /\ CallEnded
    /\ NoMatchBeforeDeadline
    /\ result.kind = "TimeoutError"
    /\ nread = startRead + 2
    /\ \E i, j \in (startRead + 1)..nread :
          /\ EventMsg(stream[i].msg)
          /\ stream[j].msg.type = "response"
          /\ stream[j].msg.id /= request_id

\* C3: a message read_response returns is never an Event and carries the
\* awaited id.
C3_ReturnsMatchingResponse ==
    (pc = "idle" /\ result.kind = "msg") =>
        /\ ~EventMsg(result.msg)
        /\ result.msg.id = request_id

\* An Event carrying the awaited id was skipped, and a Response without a
\* type field was returned.
C3_Witness ==
    /\ pc = "idle"
    /\ result.kind = "msg"
    /\ result.msg.type = "none"
    /\ \E i \in (startRead + 1)..(nread - 1) :
          EventMsg(stream[i].msg) /\ stream[i].msg.id = request_id

\* C4: a frame read and not returned is gone: no call returns a frame that
\* was read before, and what a call returns arrived after every frame the
\* earlier calls read.
C4_DiscardedNotQueued ==
    (pc = "idle" /\ result.kind = "msg") =>
        \A j \in discarded :
            /\ result.idx /= j
            /\ j <= startRead => j < result.idx

\* A Response for id 2 was read and dropped, a Response for id 1 returned,
\* and the later read_response(2) ended without the dropped Response.
C4_Witness ==
    /\ CallEnded
    /\ request_id = 2
    /\ result.kind = "TimeoutError"
    /\ \E j, k \in 1..startRead :
          /\ j < k
          /\ j \in discarded
          /\ ResponseFor(stream[j].msg, 2)
          /\ k \notin discarded
          /\ ResponseFor(stream[k].msg, 1)

\* ------------------------------------------------------ claims on request

Returned == {i \in 1..Len(reqLog) : reqLog[i].state = "returned"}
AutoCalls(n) == {i \in 1..n : reqLog[i].arg = None}

\* C5 as stated: the ids request() returns are pairwise distinct, whether or
\* not a call passes an explicit id.
C5_AsStated ==
    \A i, j \in Returned : i /= j => reqLog[i].id /= reqLog[j].id

\* C5, amended: the ids returned by calls that pass no explicit id are
\* pairwise distinct.
C5_AutoIdsDistinct ==
    \A i, j \in Returned \cap AutoCalls(Len(reqLog)) :
        i /= j => reqLog[i].id /= reqLog[j].id

C5_Witness ==
    \E i, j \in Returned \cap AutoCalls(Len(reqLog)) :
        i /= j /\ reqLog[i].id /= reqLog[j].id

\* C6: the k-th call without an explicit id uses id k, a call with an
\* explicit id uses that id, and the counter is one more than the number of
\* calls made without an explicit id.
C6_CounterAdvance ==
    /\ \A i \in 1..Len(reqLog) :
          reqLog[i].id = IF reqLog[i].arg = None
                         THEN Cardinality(AutoCalls(i))
                         ELSE reqLog[i].arg
    /\ next_id = 1 + Cardinality(AutoCalls(Len(reqLog)))

\* A call without an explicit id, one with an explicit id that is not the
\* counter's value, and another without: the last returned 2.
C6_Witness ==
    /\ Len(reqLog) >= 3
    /\ reqLog[1].arg = None /\ reqLog[1].state = "returned"
    /\ reqLog[2].arg = 3 /\ reqLog[2].state = "returned"
    /\ reqLog[3].arg = None /\ reqLog[3].state = "returned"
    /\ reqLog[3].id = 2

\* ------------------------------------------- claims on the connection state

FrameOps == {"read_frame", "write_frame"}

C8_AsStated ==
    (transport = "ble" /\ last.op \in FrameOps /\ last.disc
        /\ last.phase = "Connected") =>
        last.outcome = "ConnectionError"

\* C9: close() returns normally and leaves the handle cleared, on every
\* transport (stated for a transport whose connect() had succeeded).
C9_AsStated ==
    (last.op = "close" /\ last.phase = "Connected") =>
        (last.outcome = "ok" /\ ~handle)

\* C10: after a connect() that failed on an Unconnected transport no handle
\* is retained, and a write_frame or read_frame that follows fails with
\* ConnectionError.
C10_AsStated ==
    failed_connect =>
        /\ ~handle
        /\ last.op \in FrameOps => last.outcome = "ConnectionError"

\* C11: Closed is terminal: once close() has completed on an instance that
\* was Connected, no operation, connect() included, makes it Connected again.
C11_AsStated == [][phase = "Closed" => phase' /= "Connected"]_vars

\* ------------------------------------------------ claims on the frame codec

\* C16: decode_frame(encode_frame(p)) = p for every byte string p whose
\* length fits the 4-byte length field.
C16_RoundTrip ==
    codec.op = "round_trip" => codec.out = Returns(codec.arg)

C16_Witness ==
    codec.op = "round_trip" /\ Len(codec.arg) = MaxPayload /\ codec.out.ok

\* The value of a 4-byte big-endian header, written out
HeaderValue(m) == m[1] * 16777216 + m[2] * 65536 + m[3] * 256 + m[4]

\* C17: decode_frame fails for every input shorter than 4 bytes and for every
\* input whose header value differs from len(input) - 4; for every other
\* input it returns input[4:].
C17_DecodeFails ==
    codec.op = "decode_frame" =>
        LET m == codec.arg
            bad == Len(m) < 4 \/ HeaderValue(m) /= Len(m) - 4
        IN  /\ bad => (~codec.out.ok /\ codec.out.error = "ValueError")
            /\ ~bad => codec.out = Returns([i \in 1..(Len(m) - 4) |-> m[i + 4]])

C17_Witness ==
    /\ codec.op = "decode_frame"
    /\ Len(codec.arg) = 4 + MaxPayload
    /\ HeaderValue(codec.arg) /= MaxPayload
    /\ ~codec.out.ok

\* ----------------------------------------- claims on the serial read_frame

\* C12: after the 4-byte header is read, serial read_frame rejects the frame
\* exactly when the declared length is 0 or more than 1,000,000; on rejection
\* it resets the input buffer once, raises, and has read no payload byte.
C12_HeaderValidation ==
    ser_header /= <<>> =>
        LET length == HeaderValue(ser_header)
        IN  IF length = 0 \/ length > 1000000
            THEN /\ ser_pc = "idle"
                 /\ ser_result = Raises("ValueError")
                 /\ ser_resets = 1
                 /\ ser_nread = 4
            ELSE /\ ser_result.error /= "ValueError"
                 /\ ser_resets = 0

C12_Witness ==
    /\ ser_header /= <<>>
    /\ HeaderValue(ser_header) = 1000001
    /\ ser_result = Raises("ValueError")
    /\ ser_resets = 1

\* a header declaring exactly 1,000,000 has been accepted
C12_CeilingAccepted ==
    /\ ser_header /= <<>>
    /\ HeaderValue(ser_header) = 1000000
    /\ ser_pc = "payload"

\* C13: a successful serial read_frame consumes exactly 4 + length bytes of
\* the incoming stream and returns them in stream order, however the bytes
\* became available; the bytes after the frame stay for the next read_frame,
\* and the returned frame passes decode_frame.
C13_ExactFrame ==
    (ser_pc = "idle" /\ ser_result.ok) =>
        LET length == HeaderValue(SubSeq(ser_stream, ser_start + 1, ser_start + 4))
        IN  /\ ser_nread = 4 + length
            /\ ser_pos = ser_start + 4 + length
            /\ ser_result.value =
                   SubSeq(ser_stream, ser_start + 1, ser_start + 4 + length)
            /\ decode_frame(ser_result.value).ok

\* a frame is returned while a byte that follows it waits in the buffer
C13_Witness ==
    /\ ser_pc = "idle"
    /\ ser_result.ok
    /\ ser_arrived > ser_pos

\* -------------------------------------------- claims on the BLE write_frame

\* ceil(a / b)
CeilDiv(a, b) == (a + b - 1) \div b

RECURSIVE Concat(_)
Concat(chunks) ==
    IF chunks = <<>> THEN <<>> ELSE Head(chunks) \o Concat(Tail(chunks))

\* C14: BLE write_frame of a frame of length L with MTU M > 3 performs
\* exactly ceil(L / (M-3)) GATT writes, each of at most M-3 bytes, whose
\* concatenation is the frame, with a pacing delay between consecutive writes
\* only; it never makes more writes than that, so it terminates.
C14_Chunking ==
    LET n == CeilDiv(Len(w_frame), w_mtu - 3)
    IN  /\ Len(w_writes) <= n
        /\ w_sleeps <= n - 1 \/ w_writes = <<>>
        /\ \A i \in 1..Len(w_writes) : Len(w_writes[i]) <= w_mtu - 3
        /\ (w_pc = "idle" /\ w_result.ok) =>
               /\ Len(w_writes) = n
               /\ w_sleeps = n - 1
               /\ Concat(w_writes) = w_frame

\* a frame that needs several chunks has been written
C14_Witness ==
    /\ w_pc = "idle"
    /\ w_result.ok
    /\ Len(w_writes) = 3
    /\ w_sleeps = 2

\* --------------------------------------------- claims on the BLE read_frame

\* C15: however the bytes of the device's frames are split into
\* notifications, successive read_frame calls return exactly the original
\* frames in order, and the receive buffer always holds the notified bytes
\* that have not been returned.
C15_Reassembly ==
    /\ Len(rx_out) <= Len(rx_sent)
    /\ \A i \in 1..Len(rx_out) : rx_out[i] = rx_sent[i]
    /\ rx_buffer = Drop(rx_notified, Len(Concat(rx_out)))
    /\ (rx_pc = "idle" /\ rx_result.ok) => rx_result.value = rx_out[Len(rx_out)]

\* the first frame is returned while the buffer holds the first bytes, and
\* not yet the whole header, of the second
C15_Witness ==
    /\ rx_pc = "idle"
    /\ rx_result.ok
    /\ Len(rx_out) = 1
    /\ rx_buffer /= <<>>
    /\ Len(rx_buffer) < 4

\* the second frame is returned
C15_SecondFrame ==
    /\ rx_pc = "idle"
    /\ rx_result.ok
    /\ Len(rx_out) = 2

\* ---------------------------------------------- claims on the Radio facade

\* C18: _call raises RpcError exactly when the reply carries a non-null
\* error, with the code and message of the error map when the error is a map
\* and with code -1 when it is not; with the error absent or null it returns
\* the reply's result map, so set_volume returns the result's volume.
C18_ErrorTranslation ==
    LET err == call.reply.error
        res == call.reply.result
        none == err.kind \in {"absent", "null"}
    IN  /\ call.op \in {"_call", "set_volume"} =>
               /\ call.out.kind = "RpcError" <=> ~none
               /\ (err.kind = "map" /\ err.code /= <<>>) =>
                      call.out.code = err.code[1]
               /\ (err.kind = "map" /\ err.message /= <<>>) =>
                      call.out.message = err.message[1]
               /\ (~none /\ err.kind /= "map") => call.out.code = -1
        /\ (call.op = "_call" /\ none /\ res.kind = "map") =>
               (call.out.kind = "returned" /\ call.out.value = res)
        /\ (call.op = "set_volume" /\ none /\ res.volume /= <<>>) =>
               (call.out.kind = "returned" /\ call.out.value.volume = res.volume)

\* an error that is not a map has been translated
C18_Witness ==
    /\ call.op = "_call"
    /\ call.reply.error.kind = "int"
    /\ call.out.kind = "RpcError"
    /\ call.out.code = -1

\* set_volume has returned the volume of the result
C18_VolumeReturned ==
    /\ call.op = "set_volume"
    /\ call.out.kind = "returned"
    /\ call.out.value.volume = <<9>>

\* ------------------------------------------- claims on errors and deadlines

\* C19: errors are propagated, never swallowed or retried: when a
\* read_message issued by read_response fails, read_response ends at once
\* with that same error and reads no further frame; request() makes at most
\* one write_frame call, and a write failure surfaces to the caller.
C19_ErrorsPropagate ==
    /\ read_error.kind /= "none" =>
           /\ pc = "idle"
           /\ result.kind = read_error.kind
           /\ nread = read_error.nread
    /\ \A i \in 1..Len(reqLog) :
           /\ reqLog[i].writes <= 1
           /\ reqLog[i].failed => reqLog[i].state = "raised"

\* the request was written, a frame was skipped, and the next frame did not
\* decode
C19_Witness ==
    /\ Len(reqLog) = 1
    /\ reqLog[1].state = "returned"
    /\ read_error.kind = "ValueError"
    /\ nread > startRead + 1
    /\ result.kind = "ValueError"

\* the write of the request failed, and request() raised
C19_WriteFailed ==
    /\ Len(reqLog) = 1
    /\ reqLog[1].failed
    /\ reqLog[1].state = "raised"

\* C20: read_response has one fixed deadline, start + timeout: every
\* read_message it issues gets a timeout no larger than deadline - now, so the
\* time spent on skipped messages counts against the budget, and the call,
\* whose read_frame honours its timeout, is over no later than the deadline.
C20_SingleDeadline ==
    /\ pc = "read_frame" => rfDeadline <= deadline
    /\ pc /= "idle" => now <= deadline

\* the call skipped messages while time passed, and ran out of time at its
\* deadline
C20_Witness ==
    /\ pc = "idle"
    /\ result.kind = "TimeoutError"
    /\ nread > startRead
    /\ timeout = 2
    /\ now = deadline
    /\ discarded /= {}
    /\ \E i \in 1..Len(stream) : i \in discarded /\ stream[i].at > 0

\* ------------------------------------- claims on the shared serial port

\* The operations in progress on the port
InProgress == {t \in Tasks : task[t].busy /= "none"}

\* C21: in every interleaving of tasks calling connect, switch_mode,
\* write_frame, read_frame and close on one serial transport, at most one
\* operation on the port (read, write, flush, in_waiting query, input-buffer
\* reset, close) is in progress at any time.
C21_AsStated == Cardinality(InProgress) <= 1

\* The frames read_frame has just returned to a task
ReturnedFrame(t) ==
    /\ task_result[t].op = "read_frame"
    /\ task_result[t].out.ok
OneDeviceFrame(frame) ==
    \E f \in 1..MaxPortFrames : frame = DeviceFrame(f)

\* C22: when tasks call read_frame concurrently on one serial transport,
\* and call nothing else, each frame returned is a contiguous run of the
\* stream's bytes that makes up exactly one frame the device sent.
C22_AsStated ==
    port_count.reads = port_count.calls =>
        \A t \in Tasks :
            ReturnedFrame(t) => OneDeviceFrame(task_result[t].out.value)

\* What one write_frame call puts on the wire
WrittenBy(c) == SelectSeq(port_wire, LAMBDA w : w.call = c)
WriteFrameCalls ==
    {c \in 1..port_count.calls :
        \/ \E t \in Tasks : task[t].call = c /\ task[t].op = "write_frame"
        \/ \E t \in Tasks : task_result[t].call = c
                            /\ task_result[t].op = "write_frame"}
Contiguous(c) ==
    \A i, j \in 1..Len(port_wire) :
        (i < j /\ port_wire[i].call = c /\ port_wire[j].call = c)
            => \A k \in i..j : port_wire[k].call = c

\* C23: when tasks call write_frame concurrently on one serial transport,
\* the bytes and the flush of each frame are on the wire in one run, no item
\* of another call between them, and a call that returned has put its whole
\* frame and its flush there.
C23_FramesWhole ==
    /\ \A c \in WriteFrameCalls : Contiguous(c)
    /\ \A t \in Tasks :
          (task_result[t].op = "write_frame" /\ task_result[t].out.ok)
              => Len(WrittenBy(task_result[t].call)) = 3

\* C23 witness: one task has written its frame and is flushing it, under the
\* lock the other task's write_frame waits for.
C23_Witness ==
    \E t, u \in Tasks :
        /\ task[t].pc = "wf_flush"
        /\ task[u].pc = "wf_lock"
        /\ Len(WrittenBy(task[t].call)) = 2

\* ------------------------------------- claims on the shared BLE client

\* C24: when tasks call write_frame concurrently on one BLE transport with
\* frames longer than MTU-3, the chunks of one frame are all written before
\* any chunk of the other: no chunk of another call lies between two chunks
\* of one call.
C24_AsStated ==
    \A i, j \in 1..Len(bw_char) :
        (i < j /\ bw_char[i].call = bw_char[j].call)
            => \A k \in i..j : bw_char[k].call = bw_char[i].call

\* ------------------------------- claims on the BLE read_frame, continued

\* C25: a BLE read_frame whose first four buffered bytes declare the length 0
\* or a length above 1,000,000 discards the buffered input and fails: it
\* never returns a frame that declares such a length.
C25_AsStated ==
    rx_result.ok => ~InvalidLength(FromBytes(Take(rx_result.value, 4)))

\* The bytes that arrived before the deadline hold the whole front frame
FrontFrameInTime ==
    /\ rx_early >= 4
    /\ Len(rx_buffer) >= 4
    /\ rx_early >= TotalSize(FromBytes(Take(rx_buffer, 4)))

\* C30: a pending read_frame does not time out when the notifications
\* delivered before its deadline have brought the buffer to the 4 + length
\* bytes of the front frame, however the callbacks interleave with its
\* buffer check, its wait and its clearing of the event.
C30_NoLostWakeup ==
    [][(rx_pc /= "idle" /\ FrontFrameInTime)
           => ~(rx_pc' = "idle" /\ rx_result' = Raises("TimeoutError"))]_vars

\* C30 witness: the reader is suspended in its wait; notifications have set
\* the event and completed the front frame before the deadline
C30_Witness ==
    /\ rx_waiting
    /\ rx_event
    /\ rx_clock < rx_deadline
    /\ FrontFrameInTime
    /\ rx_early = Len(rx_buffer)
    /\ rx_early > 4

\* ---------------------------------- claims on the WebSocket transport

\* The message the last read_frame took
TakenMessage == ws_peer[ws_nread]
ReadEnded(error) ==
    /\ ws_pc = "idle"
    /\ ws_result.op = "read_frame"
    /\ ws_result.out.error = error

\* C26: write_frame sends exactly one message, the frame; read_frame returns
\* the bytes of exactly one received binary message unchanged, fails with an
\* error when the message is text, and fails with TimeoutError, no message
\* taken, when its timeout passes with no message received.
C26_OneMessageOneFrame ==
    /\ (ws_result.op = "write_frame" /\ ws_result.out.ok)
           => /\ Len(ws_sent) = ws_result.before + 1
              /\ ws_sent[Len(ws_sent)] = ws_result.arg
    /\ (ReadEnded("none") /\ ws_result.out.ok)
           => /\ ws_nread = ws_result.before + 1
              /\ TakenMessage.kind = "binary"
              /\ ws_result.out.value = TakenMessage.data
    /\ (ReadEnded("ValueError") \/ ReadEnded("TimeoutError"))
           => ~ws_result.out.ok
    /\ ReadEnded("ValueError")
           => ws_nread = ws_result.before + 1 /\ TakenMessage.kind = "text"
    /\ ReadEnded("TimeoutError") => ws_nread = ws_result.before
    /\ (ws_pc = "idle" /\ ws_result.op = "read_frame"
        /\ ws_nread = ws_result.before + 1)
           => (TakenMessage.kind = "text" <=> ReadEnded("ValueError"))
    /\ (ws_pc = "recv" /\ ws_inbox = <<>>) => ws_clock <= ws_deadline

\* C26 witness: a read_frame that waited received a text message and failed
\* with ValueError, after a write_frame had sent its frame
C26_Witness ==
    /\ ReadEnded("ValueError")
    /\ ws_clock > 0
    /\ Len(ws_sent) > 0

\* ------------------------------------------ claims on the BLE connect()

\* C27: when the scan finds no device, connect() of a BLE transport that is
\* Unconnected with no client raises ConnectionError, has attempted no link
\* connect and no notification subscribe, and leaves the transport
\* Unconnected with no client handle.
C27_NotFound ==
    [][(/\ transport = "ble"
        /\ phase = "Unconnected"
        /\ ~handle
        /\ last'.op = "connect"
        /\ last'.outcome = "ConnectionError")
           => /\ ~last'.io
              /\ ~handle'
              /\ ~link_up'
              /\ ~notifying'
              /\ phase' = "Unconnected"]_vars

\* C27 witness: a connect() on a fresh BLE transport has raised
\* ConnectionError
C27_Witness ==
    /\ transport = "ble"
    /\ last.op = "connect"
    /\ last.outcome = "ConnectionError"
    /\ last.phase = "Unconnected"
    /\ phase = "Unconnected"
    /\ ~handle

\* ------------------------------------- claims on the scoped lifecycle

\* C28: a scope whose entry connected the transport calls close() once on
\* exit, whether its body returned or raised; the exception of the body
\* leaves the scope, and when the scope is left the link the scope opened is
\* closed.
C28_AsStated ==
    (scope_pc = "left" /\ scope_body /= "none") =>
        /\ last.op = "close"
        /\ scope_body = "raised" => scope_out = "body"
        /\ ~link_up
        /\ ~notifying

\* -------------------------------------- claims on the TUI's monitor

\* C29: while the TUI is connected its monitor is serialized against the
\* foreground exchanges: the monitor never consumes a Response, and its
\* read_message and a foreground read_response are never pending on the
\* transport at the same time.
C29_AsStated ==
    /\ mon.responses = {}
    /\ ~(mon.pc = "reading" /\ fg.pc = "reading")

\* ------------------------ claims on the BLE read_frame after a timeout

\* The bytes of the frames returned after the first n
ReturnedSince(n) == Concat(SubSeq(rx_out, n + 1, Len(rx_out)))

StartsWith(bytes, front) ==
    /\ Len(front) <= Len(bytes)
    /\ Take(bytes, Len(front)) = front

\* The bytes a TimeoutError left in the buffer are still the first bytes of
\* what has been returned since and what is buffered now, and the frames
\* returned since are the device's
KeptBytesStay ==
    rx_kept.set =>
        /\ StartsWith(ReturnedSince(rx_kept.returned) \o rx_buffer,
                      rx_kept.buffer)
        /\ \A i \in (rx_kept.returned + 1)..Len(rx_out) : rx_out[i] = rx_sent[i]

\* C31: a BLE read_frame that fails with TimeoutError removes no byte from
\* the receive buffer; every wait of a call gives up at the one deadline of
\* the call; and the read_frame calls that follow return the frame the
\* failed call was reading, whole, once its bytes have been notified.
C31_TimeoutKeepsBytes ==
    /\ [](rx_waiting => rx_wait_until = rx_deadline)
    /\ []KeptBytesStay
    /\ [][(rx_pc /= "idle" /\ rx_pc' = "idle"
              /\ rx_result' = Raises("TimeoutError"))
             => rx_buffer' = rx_buffer]_vars

\* C31 witness: a call timed out with the header and part of the payload
\* buffered, and a later call has returned the frame
C31_Witness ==
    /\ rx_kept.set
    /\ Len(rx_kept.buffer) > 4
    /\ rx_pc = "idle"
    /\ rx_result.ok
    /\ Len(rx_out) = rx_kept.returned + 1
    /\ rx_result.value = rx_sent[rx_kept.returned + 1]
    /\ Len(rx_result.value) > Len(rx_kept.buffer)

\* ------------------- claims on the serial read_frame after a given-up read

\* Where the frames the device has sent start, counted in bytes from the
\* start of the stream
RECURSIVE FrameStarts(_, _)
FrameStarts(bytes, at) ==
    IF at + 4 > Len(bytes)
    THEN {at}
    ELSE {at} \cup FrameStarts(bytes,
              at + 4 + HeaderValue(SubSeq(bytes, at + 1, at + 4)))

\* C32: after a serial read_frame is given up part-way through a frame (a
\* TimeoutError or a cancellation after it took bytes), the next read_frame
\* returns no frame put together from the bytes left over: a frame it
\* returns starts where a frame of the device starts.
C32_AsStated ==
    (ser_pc = "idle" /\ ser_prev /\ ser_result.ok)
        => ser_start \in FrameStarts(ser_stream, 0)

\* ------------------------------- claims on cancelled serial calls

\* Where a task waits for the lock of the transport
LockWaits == {"cn_lock", "wf_lock", "rx_check", "rx_lock", "bad_lock",
              "to_lock"}

\* Task t is cancelled in this step
CancelledNow(t) ==
    /\ task[t].pc /= "idle"
    /\ task'[t].pc = "idle"
    /\ task_result'[t].out = Raises("CancelledError")

\* C33: cancelling a task suspended in serial read_frame or write_frame
\* leaves the port handle set and takes the lock from the cancelled task at
\* that step; and a task that waits for the lock gets it, or ends its call,
\* in the end.
C33_CancelLeavesUsable ==
    /\ [][\A t \in Tasks : CancelledNow(t) =>
              /\ port_serial' = port_serial
              /\ port_lock' /= t]_vars
    /\ \A t \in Tasks :
           (task[t].pc \in LockWaits)
               ~> (port_lock = t \/ task[t].pc = "idle")

\* C33 witness: task 1 was cancelled in write_frame while it held the lock
\* (its frame is on the wire, unflushed), and task 2 now holds the lock in
\* its own write_frame
C33_Witness ==
    /\ task_result[1] = [call |-> 1, op |-> "write_frame",
                         out |-> Raises("CancelledError")]
    /\ port_serial
    /\ port_lock = 2
    /\ task[2].op = "write_frame"
    /\ task[2].pc = "wf_write"
    /\ \E i \in 1..Len(port_wire) : port_wire[i].call = 1
    /\ \A i \in 1..Len(port_wire) :
           ~(port_wire[i].call = 1 /\ port_wire[i].item = "flush")

\* ----------------------------- claims on close() during a serial read

\* Task t ends, in this step, a read_frame that began on the open port and
\* finds the port closed
EndsReadOnClosedPort(t) ==
    /\ task[t].op = "read_frame"
    /\ task[t].pc /= "idle"
    /\ ~port_serial
    /\ task'[t].pc = "idle"

\* C34: a serial read_frame in progress when close() completes on the same
\* transport fails with ConnectionError or TimeoutError, and with no other
\* kind of error.
C34_AsStated ==
    [][\A t \in Tasks : EndsReadOnClosedPort(t) =>
           task_result'[t].out.error \in {"ConnectionError", "TimeoutError"}]_vars

\* ------------------------------------ claims on the serial switch_mode

\* The items call c has put on the wire
ItemsOf(c) == [i \in 1..Len(WrittenBy(c)) |-> WrittenBy(c)[i].item]

\* read_frame returned a frame to task t in a call begun after switch_mode
\* last returned
ReadAfterSwitch(t) ==
    /\ ReturnedFrame(t)
    /\ port_count.sw_calls > 0
    /\ task_result[t].call > port_count.sw_calls

\* C35: switch_mode on a transport without a port fails with ConnectionError
\* and writes nothing; otherwise it has written nothing before its first
\* wait is over, has written the one switch byte and flushed it before its
\* second wait and its discard of the input, and when it returns it has
\* written just that; and a read_frame begun after it returned delivers no
\* byte the device had sent before.
C35_SwitchOrder ==
    /\ \A t \in Tasks : task_result[t].op = "switch_mode" =>
          /\ task_result[t].out = Raises("ConnectionError")
                 => ItemsOf(task_result[t].call) = <<>>
          /\ task_result[t].out.ok
                 => ItemsOf(task_result[t].call) = <<"switch", "flush">>
    /\ \A t \in Tasks : task[t].op = "switch_mode" =>
          /\ task[t].pc = "sm_lock" => ItemsOf(task[t].call) = <<>>
          /\ task[t].pc \in {"sm_lock2", "sm_query", "sm_reset"}
                 => ItemsOf(task[t].call) = <<"switch", "flush">>
    /\ \A t \in Tasks : ReadAfterSwitch(t) =>
          \A i \in 1..Len(task_result[t].out.value) :
              task_result[t].out.value[i].frame > port_count.sw_sent

\* C35 witness: switch_mode discarded the first frame of the device, and a
\* read_frame begun after it has returned the second
C35_Witness ==
    \E t \in Tasks :
        /\ ReadAfterSwitch(t)
        /\ port_count.sw_sent = 1
        /\ task_result[t].out.value = DeviceFrame(2)

\* ------------------------------------------------ claims on read_message

\* The calls that returned a message, in call order
Successful == SelectSeq(m_taken, LAMBDA c : c.ok)

\* C36, as stated: the k-th successful read_message call returns the
\* decoding of the k-th frame the transport delivered.
C36_AsStated == \A k \in 1..Len(Successful) : Successful[k].idx = k

\* C36, amended: the k-th read_message call that takes a frame takes the
\* k-th frame the transport delivered, one frame a call, and the frames not
\* taken wait in their order; a call that returns a message returns the
\* decoding of the frame it took, which is a Response when it has no type
\* field; a call that read_frame failed has taken no frame.
C36_InOrder ==
    /\ \A k \in 1..Len(m_taken) :
          /\ m_taken[k].idx = k
          /\ m_taken[k].ok = (m_stream[k].type /= "undecodable")
    /\ Len(m_taken) + Len(m_queue) = Len(m_stream)
    /\ \A i \in 1..Len(m_queue) : m_queue[i].idx = Len(m_taken) + i
    /\ m_result.kind = "msg" =>
          /\ m_taken /= <<>>
          /\ m_taken[Len(m_taken)].ok
          /\ m_result.msg = m_stream[Len(m_taken)]
          /\ m_result.class =
                 (IF m_result.msg.type = "event" THEN "event" ELSE "response")

\* C36 witness: the first frame did not decode and its call failed; the
\* second call that took a frame has returned the second frame, a message
\* without a type field, as a Response
C36_Witness ==
    /\ Len(m_taken) = 2
    /\ ~m_taken[1].ok
    /\ m_result.kind = "msg"
    /\ m_result.msg.type = "none"
    /\ m_result.class = "response"
    /\ m_result.msg = m_stream[2]

\* ------------------------------------- claims on request, continued

\* The calls made without an explicit id whose write_frame raised
FailedAuto == {i \in AutoCalls(Len(reqLog)) : reqLog[i].failed}

\* C37: when request() is called without an explicit id and write_frame
\* raises, the counter is already past the id of the call, and every later
\* call without an explicit id uses a greater id.
C37_FailedIdNotReused ==
    \A i \in FailedAuto :
        /\ next_id > reqLog[i].id
        /\ \A j \in AutoCalls(Len(reqLog)) : j > i => reqLog[j].id > reqLog[i].id

\* C37 witness: the first call took id 1 and its write_frame raised; the
\* next call without an explicit id has returned 2
C37_Witness ==
    /\ Len(reqLog) >= 2
    /\ 1 \in FailedAuto
    /\ reqLog[1].state = "raised"
    /\ reqLog[2].arg = None
    /\ reqLog[2].state = "returned"
    /\ reqLog[2].id = 2

\* C38: the legacy synchronous clients keep the read_response contract of the
\* engine: given the same frames at the same instants and the same timeout,
\* both calls end the same way, with the same Response or with TimeoutError,
\* and the legacy TimeoutError comes no later than start + timeout.
BothEnded == pc = "idle" /\ result /= NoResult /\ legacy.pc = "idle" /\ legacy.result /= NoResult
C38_AsStated ==
    /\ BothEnded => legacy.result = result
    /\ legacy.result.kind = "TimeoutError" => legacy.ended <= legacy.deadline

\* C39: close() is idempotent on every transport: called on an instance on
\* which connect() was never called, or again once a close() has returned
\* with no connect() in between, it does nothing on the link, returns
\* normally and leaves the state of the transport as it was.
LinkState == <<handle, link_up, notifying, disconnect_event, rx_frames, phase>>
CloseCalled ==
    \/ SerialClose \/ SerialCloseRaises \/ SerialCloseNoHandle
    \/ WsClose \/ WsCloseRaises \/ WsCloseNoHandle
    \/ BleClose \/ BleCloseRaises \/ BleCloseNotConnected
C39_CloseIdempotent ==
    [][(link_calls \in {"never", "closed"} /\ CloseCalled) =>
          /\ last'.op = "close"
          /\ last'.outcome = "ok"
          /\ ~last'.io
          /\ LinkState' = LinkState]_vars
\* a second close() has returned, on an instance that was Connected
C39_Witness ==
    /\ last.op = "close"
    /\ last.phase = "Closed"
    /\ last.outcome = "ok"
    /\ ~last.io
    /\ link_calls = "closed"
\* close() has returned on an instance on which connect() was never called
C39_WitnessNever ==
    /\ last.op = "close"
    /\ last.phase = "Unconnected"
    /\ ~failed_connect
    /\ phase = "Unconnected"
    /\ handle = FALSE
    /\ link_calls = "closed"

====
